---- MODULE Spec2Model ----
(***************************************************************************)
(* Model of the xgparser binary pipeline: the record-stream decoder        *)
(* (ParseGameFile / GameFileRecord.FromStream), the six record type        *)
(* decoders, the domain assembler (ParseXG, convertCubeEntry,              *)
(* convertMoveEntry, swapPosition) and archive extraction                  *)
(* (ZlibArchive.GetArchiveFile).                                           *)
(***************************************************************************)
EXTENDS Integers, Sequences, FiniteSets, TLC

VARIABLES
    data,         \* ParseGameFile: the game-file segment bytes, as slots + length of the last slot
    pos,          \* bytes.Reader read offset
    version,      \* ParseGameFile: current format version
    records,      \* ParseGameFile: records decoded so far
    lastErr,      \* error returned by the last GameFileRecord.FromStream call
    pc,           \* "header" (ParseXG, container header segment), "read" (ParseGameFile
                  \* loop), "assemble" (ParseXG loop over records), "done"
    idx,          \* ParseXG: index of the next record to assemble
    fileVersion,  \* ParseXG: fileVersion
    games,        \* ParseXG: match.Games
    currentGame,  \* ParseXG: currentGame (NoGame = nil)
    result,       \* what ParseXG returned: "none" (still running), "match", "error"
    metadata,     \* ParseXG: match.Metadata
    XGFileMap,    \* the package-level map from archived file names to segment types
    input,        \* the argument of a function applied on its own (swapPosition,
                  \* convertCubeEntry, convertMoveEntry, GetArchiveFile)
    output        \* the values it returned, in call order

streamVars ==
    <<data, pos, version, records, lastErr, pc, idx, fileVersion, games, currentGame, result,
      metadata, XGFileMap>>

callVars == <<input, output>>

vars == <<streamVars, callVars>>

-----------------------------------------------------------------------------
(* Bounds *)

\* largest number of freely chosen slots (the last one possibly truncated) in a
\* record stream; a stream may also start with a match and a game header before them
MaxSlots == 3

-----------------------------------------------------------------------------
(* Program constants *)

\* every record occupies one slot of this many bytes
RecordSize == 2560

\* the Skip[8] + EntryType header peeked by GameFileRecord.FromStream
PeekSize == 9

\* the no-op decision code of an initial-position placeholder cube record
NoOpDouble == -2

\* initial fileVersion of ParseXG
InitialVersion == -1

\* mutant of NoGame: currentGame starts as an empty Game instead of nil
NoGame_Empty ==
    [open |-> TRUE, GameNumber |-> 0, InitialScore |-> <<0, 0>>, Moves |-> <<>>,
     Winner |-> 0, PointsWon |-> 0, hdr |-> -1, ftr |-> -1]

\* currentGame == nil
NoGame == [open |-> FALSE]

Min(a, b) == IF a < b THEN a ELSE b
Max(a, b) == IF a > b THEN a ELSE b

-----------------------------------------------------------------------------
(* Integer widths *)

\* int8 negation as Go computes it: -(-128) wraps to -128
Neg8(x) == IF x = -128 THEN -128 ELSE 0 - x

\* the smallest int32
MinInt32 == (0 - 2147483647) - 1

\* int32 negation as Go computes it: -MinInt32 wraps to MinInt32
Neg32(x) == IF x = MinInt32 THEN MinInt32 ELSE 0 - x

\* int8 addition x + 1 with wrap-around
Inc8(x) == IF x = 127 THEN -128 ELSE x + 1

\* int32 addition x + 1 with wrap-around
Inc32(x) == IF x = 2147483647 THEN MinInt32 ELSE x + 1

-----------------------------------------------------------------------------
(* Positions *)

ZeroPos == [i \in 0..25 |-> 0]

\* a position with checkers on at most two slots
TwoSlotPos(i, a, j, b) == [k \in 0..25 |-> IF k = i THEN a ELSE IF k = j THEN b ELSE 0]

RECURSIVE AbsSumFrom(_, _)
AbsSumFrom(p, k) ==
    IF k > 25 THEN 0
    ELSE (IF p[k] < 0 THEN 0 - p[k] ELSE p[k]) + AbsSumFrom(p, k + 1)

\* sum of |slot| over the 26 slots
AbsSum(p) == AbsSumFrom(p, 0)

-----------------------------------------------------------------------------
(* The record stream: what a game-file segment holds *)

\* format versions a match header may carry (a pre-Unicode one and the latest)
Versions == {23, 30}

\* the six implemented entry types
Implemented(kind) == kind \in 0..5

\* a discriminator byte that is none of the six known kinds
UnknownKind == CHOOSE k \in 0..255 : ~Implemented(k)

\* byte lengths of the last slot of a stream: a full slot, or a stream cut
\* inside the 9-byte peek, after the first fields, or in the middle of the payload
LastLens == {RecordSize, 5, 20, 100}

SamplePos == TwoSlotPos(6, 5, 25, 1)
SampleAlt1 == TwoSlotPos(5, 5, 19, -2)
SampleAlt2 == TwoSlotPos(0, -1, 24, 15)

\* the fields of a slot the model keeps, all zero (Go's zero values); `at` is the
\* byte offset a decoded record was read from (0 in a stored slot). Magic is
\* bytes 556..559 of the slot, in a match header the uint32 Magic field ("DMLI"
\* in stream order). The float32
\* equities (AEquB, AEquDouble, AEquDrop) are kept in thousandths.
ZeroSlot ==
    [kind |-> 0, at |-> 0, Version |-> 0, GameNumber |-> 0, Score1 |-> 0, Score2 |-> 0,
     ActiveP |-> 0, Double |-> 0, CubeB |-> 0, Position |-> ZeroPos,
     Moves |-> <<0, 0, 0, 0, 0, 0, 0, 0>>, Dice |-> <<0, 0>>,
     AScore |-> <<0, 0>>, ACube |-> 0, ACubePos |-> 0, ALevel |-> 0,
     AEquB |-> 0, AEquDouble |-> 0, AEquDrop |-> 0, Magic |-> <<0, 0, 0, 0>>,
     NMoves |-> 0, PosPlayed |-> <<>>, AltMoves |-> <<>>, AltLevel |-> <<>>,
     Winner |-> 0, PointsWon |-> 0,
     CubeLimit |-> 0, Transcribed |-> FALSE, Event |-> <<>>, Player1 |-> <<>>,
     Player2 |-> <<>>, Location |-> <<>>, Round |-> <<>>, TimeSetting |-> FALSE,
     ClockType |-> 0, TotTimeDelayMove |-> 0, Transcriber |-> <<>>]

\* a match header slot whose version-gated byte ranges all hold something: cube
\* limit 64, the transcribed flag, Unicode event "E", players "P1" and "P2",
\* location "L" and round "R", clock type 2, a move delay of 7, transcriber "T"
MatchHeaderSlot(v) ==
    [ZeroSlot EXCEPT !.kind = 0, !.Version = v, !.Magic = <<68, 77, 76, 73>>,
                     !.CubeLimit = 64, !.Transcribed = TRUE, !.Event = <<69>>,
                     !.Player1 = <<80, 49>>, !.Player2 = <<80, 50>>, !.Location = <<76>>,
                     !.Round = <<82>>, !.ClockType = 2, !.TotTimeDelayMove = 7,
                     !.Transcriber = <<84>>]

GameHeaderSlot(n) == [ZeroSlot EXCEPT !.kind = 1, !.GameNumber = n, !.Score1 = 3, !.Score2 = 5]

CubeSlot(a, d) ==
    [ZeroSlot EXCEPT !.kind = 2, !.ActiveP = a, !.Double = d, !.CubeB = 1,
                     !.Position = SamplePos, !.AScore = <<3, 5>>, !.ACube = 2,
                     !.ACubePos = 1, !.ALevel = 3,
                     !.AEquB = 250, !.AEquDouble = 400, !.AEquDrop = 1000]

MoveSlot(a) ==
    [ZeroSlot EXCEPT !.kind = 3, !.ActiveP = a, !.CubeB = 1, !.Position = SamplePos,
                     !.Moves = <<23, 17, 24, 20, -1, -1, -1, -1>>, !.Dice = <<4, 3>>,
                     !.AScore = <<3, 5>>, !.ACube = 2, !.ACubePos = -1, !.NMoves = 2,
                     !.PosPlayed = <<SampleAlt1, SampleAlt2>>,
                     !.AltMoves = << <<23, 17, 24, 20, -1, -1, -1, -1>>,
                                     <<5, -2, 0, -2, -1, 3, 3, 3>> >>,
                     !.AltLevel = <<3, 0>>]

GameFooterSlot(w) == [ZeroSlot EXCEPT !.kind = 4, !.Winner = w, !.PointsWon = 2]

MatchFooterSlot == [ZeroSlot EXCEPT !.kind = 5]

UnknownSlot == [ZeroSlot EXCEPT !.kind = UnknownKind]

SlotChoices ==
    {MatchHeaderSlot(v) : v \in Versions}
    \cup {GameHeaderSlot(2)}
    \cup {CubeSlot(1, NoOpDouble), CubeSlot(-1, 1)}
    \cup {MoveSlot(-1)}
    \cup {GameFooterSlot(-1), MatchFooterSlot, UnknownSlot}

\* all slot sequences of length 0..n
RECURSIVE SlotSeqs(_)
SlotSeqs(n) ==
    IF n = 0 THEN {<<>>}
    ELSE LET shorter == SlotSeqs(n - 1)
         IN  shorter \cup {Append(q, s) : q \in {x \in shorter : Len(x) = n - 1}, s \in SlotChoices}

\* what a stream starts with before its freely chosen slots: nothing, or a match
\* header followed by a game header
Prefixes == {<<>>, <<MatchHeaderSlot(23), GameHeaderSlot(1)>>}

\* number of bytes of the stream
DataLen(d) ==
    IF Len(d.slots) = 0 THEN 0 ELSE RecordSize * (Len(d.slots) - 1) + d.lastLen

-----------------------------------------------------------------------------
(* Record type decoders: bytes consumed and fields read *)

\* binary.Read of a field ending at byte `end` of the record: the stored value
\* when the stream still holds those bytes, else the field keeps its zero value
Rd(v, end, avail, zero) == IF end <= avail THEN v ELSE zero

\* utf16.Decode: a surrogate pair is one rune, a lone surrogate U+FFFD
RECURSIVE Utf16Decode(_)
Utf16Decode(u) ==
    IF u = <<>> THEN <<>>
    ELSE IF u[1] \in 55296..56319 /\ Len(u) >= 2 /\ u[2] \in 56320..57343
    THEN <<65536 + (u[1] - 55296) * 1024 + (u[2] - 56320)>> \o Utf16Decode(SubSeq(u, 3, Len(u)))
    ELSE <<IF u[1] \in 55296..57343 THEN 65533 ELSE u[1]>> \o Utf16Decode(Tail(u))

\* UTF16IntArrayToString on an array of `count` code units of which `units` are
\* the leading ones and the rest zero: the runes before the first zero; nothing
\* when the first unit is zero or no unit is
UTF16IntArrayToString(units, count) ==
    LET zeros  == {i \in 1..Len(units) : units[i] = 0}
        length == IF zeros # {} THEN (CHOOSE i \in zeros : \A j \in zeros : i <= j) - 1
                  ELSE IF Len(units) < count THEN Len(units)
                  ELSE 0
    IN  Utf16Decode(SubSeq(units, 1, length))

\* bytes HeaderMatchEntry.FromStream reads; the gates test the Version field
\* read from the record itself
HeaderMatchEntrySize(hv) ==
    612 + (IF hv >= 8 THEN 8 ELSE 0)
        + (IF hv >= 24 THEN 2 + 5 * 258 ELSE 0)
        + (IF hv >= 25 THEN 32 ELSE 0)
        + (IF hv >= 26 THEN 16 ELSE 0)
        + (IF hv >= 30 THEN 258 ELSE 0)

HeaderGameEntrySize(v) == 64 + (IF v >= 26 THEN 4 ELSE 0)

CubeEntrySize(v) ==
    296 + (IF v >= 24 THEN 1 ELSE 0) + (IF v >= 26 THEN 2 ELSE 0)
        + (IF v >= 27 THEN 5 ELSE 0) + (IF v >= 28 THEN 8 ELSE 0)

\* mutant of MoveEntrySize: RolloutIndexM read as 32 64-bit values
MoveEntrySize_WideRollout(v) ==
    2656 + (IF v >= 24 THEN 1 ELSE 0) + (IF v >= 26 THEN 11 ELSE 0)
         + (IF v >= 27 THEN 4 ELSE 0)

MoveEntrySize(v) ==
    2528 + (IF v >= 24 THEN 1 ELSE 0) + (IF v >= 26 THEN 11 ELSE 0)
         + (IF v >= 27 THEN 4 ELSE 0)

FooterGameEntrySize == 117

FooterMatchEntrySize == 57

\* mutant of VersionGate: a group is read only above its threshold
VersionGate_Above(hv, threshold) == hv > threshold

\* if h.Version >= threshold
VersionGate(hv, threshold) == hv >= threshold

\* a field of a version-gated group: read (at the offset it has when all the
\* groups before it are there) when the gate is open, left at its zero value otherwise
Gated(hv, threshold, value, end, avail, zero) ==
    IF VersionGate(hv, threshold) THEN Rd(value, end, avail, zero) ELSE zero

\* ReadUTF16Array(r, 129) followed by UTF16IntArrayToString
GatedString(hv, threshold, units, end, avail) ==
    UTF16IntArrayToString(Gated(hv, threshold, units, end, avail, <<>>), 129)

HeaderMatchEntry_FromStream(s, avail, v) ==
    LET hv == Rd(s.Version, 556, avail, 0)
    IN  [rec |-> [ZeroSlot EXCEPT
                     !.kind = 0, !.Version = hv,
                     !.Magic = Rd(s.Magic, 560, avail, <<0, 0, 0, 0>>),
                     !.CubeLimit = Gated(hv, 8, s.CubeLimit, 616, avail, 0),
                     !.Transcribed = Gated(hv, 24, s.Transcribed, 621, avail, FALSE),
                     !.Event = GatedString(hv, 24, s.Event, 880, avail),
                     !.Player1 = GatedString(hv, 24, s.Player1, 1138, avail),
                     !.Player2 = GatedString(hv, 24, s.Player2, 1396, avail),
                     !.Location = GatedString(hv, 24, s.Location, 1654, avail),
                     !.Round = GatedString(hv, 24, s.Round, 1912, avail),
                     !.TimeSetting = VersionGate(hv, 25),
                     !.ClockType = Gated(hv, 25, s.ClockType, 1916, avail, 0),
                     !.TotTimeDelayMove = Gated(hv, 26, s.TotTimeDelayMove, 1948, avail, 0),
                     !.Transcriber = GatedString(hv, 30, s.Transcriber, 2218, avail)],
         n   |-> Min(HeaderMatchEntrySize(hv), avail)]

HeaderGameEntry_FromStream(s, avail, v) ==
    [rec |-> [ZeroSlot EXCEPT !.kind = 1, !.Version = v,
                              !.Score1 = Rd(s.Score1, 16, avail, 0),
                              !.Score2 = Rd(s.Score2, 20, avail, 0),
                              !.GameNumber = Rd(s.GameNumber, 52, avail, 0)],
     n   |-> Min(HeaderGameEntrySize(v), avail)]

CubeEntry_FromStream(s, avail, v) ==
    [rec |-> [ZeroSlot EXCEPT !.kind = 2, !.Version = v,
                              !.ActiveP = Rd(s.ActiveP, 16, avail, 0),
                              !.Double = Rd(s.Double, 20, avail, 0),
                              !.CubeB = Rd(s.CubeB, 36, avail, 0),
                              !.Position = Rd(s.Position, 62, avail, ZeroPos),
                              !.ALevel = Rd(s.ALevel, 96, avail, 0),
                              !.AScore = Rd(s.AScore, 104, avail, <<0, 0>>),
                              !.ACube = Rd(s.ACube, 108, avail, 0),
                              !.ACubePos = Rd(s.ACubePos, 112, avail, 0),
                              !.AEquB = Rd(s.AEquB, 156, avail, 0),
                              !.AEquDouble = Rd(s.AEquDouble, 160, avail, 0),
                              !.AEquDrop = Rd(s.AEquDrop, 164, avail, 0)],
     n   |-> Min(CubeEntrySize(v), avail)]

MoveEntry_FromStream(s, avail, v) ==
    [rec |-> [ZeroSlot EXCEPT !.kind = 3, !.Version = v,
                              !.Position = Rd(s.Position, 35, avail, ZeroPos),
                              !.ActiveP = Rd(s.ActiveP, 68, avail, 0),
                              !.Moves = Rd(s.Moves, 100, avail, ZeroSlot.Moves),
                              !.Dice = Rd(s.Dice, 108, avail, <<0, 0>>),
                              !.CubeB = Rd(s.CubeB, 112, avail, 0),
                              !.AScore = Rd(s.AScore, 172, avail, <<0, 0>>),
                              !.ACube = Rd(s.ACube, 176, avail, 0),
                              !.ACubePos = Rd(s.ACubePos, 180, avail, 0),
                              !.NMoves = Rd(s.NMoves, 192, avail, 0),
                              !.PosPlayed = [i \in 1..Len(s.PosPlayed) |->
                                  Rd(s.PosPlayed[i], 192 + 26 * i, avail, ZeroPos)],
                              !.AltMoves = [i \in 1..Len(s.AltMoves) |->
                                  Rd(s.AltMoves[i], 1024 + 8 * i, avail, ZeroSlot.Moves)],
                              !.AltLevel = [i \in 1..Len(s.AltLevel) |->
                                  Rd(s.AltLevel[i], 1280 + 4 * (i - 1) + 2, avail, 0)]],
     n   |-> Min(MoveEntrySize(v), avail)]

FooterGameEntry_FromStream(s, avail, v) ==
    [rec |-> [ZeroSlot EXCEPT !.kind = 4, !.Version = v,
                              !.Winner = Rd(s.Winner, 29, avail, 0),
                              !.PointsWon = Rd(s.PointsWon, 33, avail, 0)],
     n   |-> Min(FooterGameEntrySize, avail)]

FooterMatchEntry_FromStream(s, avail, v) ==
    [rec |-> [ZeroSlot EXCEPT !.kind = 5, !.Version = v],
     n   |-> Min(FooterMatchEntrySize, avail)]

-----------------------------------------------------------------------------
(* GameFileRecord.FromStream and ParseGameFile *)

Nil == [kind |-> -1]

\* the switch on g.EntryType: the record decoded and the bytes it consumed; the
\* default branch leaves g.Record nil and reads nothing
Dispatch(s, avail, v) ==
    CASE s.kind = 0 -> HeaderMatchEntry_FromStream(s, avail, v)
      [] s.kind = 1 -> HeaderGameEntry_FromStream(s, avail, v)
      [] s.kind = 2 -> CubeEntry_FromStream(s, avail, v)
      [] s.kind = 3 -> MoveEntry_FromStream(s, avail, v)
      [] s.kind = 4 -> FooterGameEntry_FromStream(s, avail, v)
      [] s.kind = 5 -> FooterMatchEntry_FromStream(s, avail, v)
      [] OTHER -> [rec |-> Nil, n |-> 0]

\* mutant of DispatchErr: an unimplemented entry type is an error
DispatchErr_UnknownFails(kind) == IF Implemented(kind) THEN "nil" ELSE "unknown entry type"

\* err after the switch: every type decoder returns nil, and the default branch
\* leaves err as the (nil) result of the header read
DispatchErr(kind) == "nil"

\* mutant of SlotAdvance: the seek to the next slot is left out
SlotAdvance_NoSeek(cur, startPos) == cur

\* mutant of SlotAdvance: seeks a whole slot from the current offset
SlotAdvance_FromCurrent(cur, startPos) == cur + RecordSize

\* the seek that ends FromStream: realRecSize = cur - startPos, then
\* Seek(2560 - realRecSize, io.SeekCurrent)
SlotAdvance(cur, startPos) == cur + (RecordSize - (cur - startPos))

\* reader.Len(): the bytes not yet read
ReaderLen(d, p) == Max(DataLen(d) - p, 0)

\* the slot the reader offset p lies in
SlotAt(d, p) == d.slots[(p \div RecordSize) + 1]

\* one call of GameFileRecord.FromStream at reader offset p with format version v:
\* the error returned, the record (Nil for g.Record == nil) and the new offset
GameFileRecord_FromStream(d, p, v) ==
    LET remaining == ReaderLen(d, p)
    IN  IF remaining = 0
        THEN [err |-> "EOF", rec |-> Nil, pos |-> p]
        ELSE IF remaining < PeekSize
        THEN [err |-> "ErrUnexpectedEOF", rec |-> Nil, pos |-> p + remaining]
        ELSE LET s   == SlotAt(d, p)
                 dec == Dispatch(s, remaining, v)
                 e   == DispatchErr(s.kind)
             IN  IF e # "nil"
                 THEN [err |-> e, rec |-> Nil, pos |-> p + dec.n]
                 ELSE [err |-> "nil",
                       rec |-> IF dec.rec = Nil THEN Nil ELSE [dec.rec EXCEPT !.at = p],
                       pos |-> SlotAdvance(p + dec.n, p)]

\* mutant of NextVersion: the version of a match header is not taken over
NextVersion_Keep(rec, v) == v

\* version = hme.Version when the record is a HeaderMatchEntry
NextVersion(rec, v) == IF rec.kind = 0 THEN rec.Version ELSE v

\* records = append(records, rec.Record) when rec.Record != nil
AppendRecord(recs, rec) == IF rec # Nil THEN Append(recs, rec) ELSE recs

\* one iteration of the loop of ParseGameFile, on its local variables; when the
\* loop ends ParseXG goes on to its loop over the records, or returns the error
ParseGameFileIteration ==
    /\ pc = "read"
    /\ LET r == GameFileRecord_FromStream(data, pos, version)
       IN  /\ lastErr' = r.err
           /\ pos' = r.pos
           /\ IF r.err = "nil"
              THEN /\ records' = AppendRecord(records, r.rec)
                   /\ version' = IF r.rec # Nil THEN NextVersion(r.rec, version) ELSE version
                   /\ UNCHANGED <<pc, result>>
              ELSE IF r.err = "EOF" \/ ReaderLen(data, r.pos) = 0
              THEN /\ pc' = "assemble"
                   /\ UNCHANGED <<records, version, result>>
              ELSE /\ pc' = "done"
                   /\ result' = "error"
                   /\ records' = <<>>
                   /\ UNCHANGED version
    /\ UNCHANGED <<data, idx, fileVersion, games, currentGame, metadata, XGFileMap>>

ParseGameFileStep ==
    /\ ParseGameFileIteration
    /\ UNCHANGED callVars

-----------------------------------------------------------------------------
(* Domain assembler: perspective normalization and record conversion *)

\* capacity of the per-alternative arrays of EngineStructBestMoveRecord
NAlt == 32

\* mutant of ArrayAt: the element after the one asked for
ArrayAt_Next(arr, i, zero) == IF i + 2 <= Len(arr) THEN arr[i + 2] ELSE zero

\* element i (0-based) of a stored 32-element array; entries the stream does
\* not set are zero
ArrayAt(arr, i, zero) == IF i + 1 <= Len(arr) THEN arr[i + 1] ELSE zero

\* mutant of swapPositionCheckers: the bar moved to slot 25 keeps its sign
swapPositionCheckers_BarSign(ps) ==
    [i \in 0..25 |->
        IF i = 0 THEN Neg8(ps[25])
        ELSE IF i = 25 THEN ps[0]
        ELSE Neg8(ps[25 - i])]

\* mutant of swapPositionCheckers: both bar slots are filled from slot 25
swapPositionCheckers_BothBars(ps) ==
    [i \in 0..25 |->
        IF i = 0 THEN Neg8(ps[25])
        ELSE IF i = 25 THEN Neg8(ps[25])
        ELSE Neg8(ps[25 - i])]

swapPositionCheckers(ps) ==
    [i \in 0..25 |->
        IF i = 0 THEN Neg8(ps[25])
        ELSE IF i = 25 THEN Neg8(ps[0])
        ELSE Neg8(ps[25 - i])]

swapPosition(ps) ==
    [Checkers |-> swapPositionCheckers(ps.Checkers),
     Cube     |-> ps.Cube,
     CubePos  |-> Neg32(ps.CubePos),
     Score    |-> <<ps.Score[2], ps.Score[1]>>]

\* the position built from the record, swapped when active_player == -1
InitialPosition(checkers, cube, activeP) ==
    LET position == [Checkers |-> checkers, Cube |-> cube, CubePos |-> 0, Score |-> <<0, 0>>]
    IN  IF activeP = -1 THEN swapPosition(position) ELSE position

\* float32(-1.0), "not applicable", in thousandths
NotApplicable == -1000

\* float32 values: the finite ones are whole thousandths of at most this
\* magnitude; the three values below stand for +Inf, -Inf and NaN
MaxFiniteFloat == 100000000

PosInf == MaxFiniteFloat + 1
NegInf == -PosInf
NaN == PosInf + 1

IsNaN(x) == x = NaN
IsInf(x) == x = PosInf \/ x = NegInf

\* a >= b and a < b on float32: false when either side is NaN
FGe(a, b) == ~IsNaN(a) /\ ~IsNaN(b) /\ a >= b
FLess(a, b) == ~IsNaN(a) /\ ~IsNaN(b) /\ a < b

\* a != b on float32: true when either side is NaN
FNeq(a, b) == IsNaN(a) \/ IsNaN(b) \/ a # b

\* a - b on float32: Inf - Inf of the same sign is NaN
FSub(a, b) ==
    IF IsNaN(a) \/ IsNaN(b) THEN NaN
    ELSE IF IsInf(a) THEN (IF b = a THEN NaN ELSE a)
    ELSE IF IsInf(b) THEN -b
    ELSE a - b

\* (num / den) * 100.0 on float32, for den != 0, in thousandths of a percent
\* (the quotient is cut to a whole number of thousandths where float32 rounds
\* it): Inf / Inf is NaN, a finite value over an infinite one is 0
FPercent(num, den) ==
    IF IsNaN(num) \/ IsNaN(den) THEN NaN
    ELSE IF IsInf(num) /\ IsInf(den) THEN NaN
    ELSE IF IsInf(num) THEN (IF den > 0 THEN num ELSE -num)
    ELSE IF IsInf(den) THEN 0
    ELSE (num * 100000) \div den

\* mutant of NoDoubleIsBest: the no-double equity has to beat the other two
NoDoubleIsBest_Strict(equNoDouble, equDoubleTake, equDoublePass) ==
    FLess(equDoubleTake, equNoDouble) /\ FLess(equDoublePass, equNoDouble)

\* if equNoDouble >= equDoubleTake && equNoDouble >= equDoublePass
NoDoubleIsBest(equNoDouble, equDoubleTake, equDoublePass) ==
    FGe(equNoDouble, equDoubleTake) /\ FGe(equNoDouble, equDoublePass)

\* wrongPassTakePercent, in thousandths of a percent
WrongPassTakePercent(equNoDouble, equDoubleTake, equDoublePass) ==
    IF NoDoubleIsBest(equNoDouble, equDoubleTake, equDoublePass)
    THEN LET equRight == IF FLess(equDoubleTake, equDoublePass) THEN equDoubleTake ELSE equDoublePass
             equWrong == IF FLess(equDoubleTake, equDoublePass) THEN equDoublePass ELSE equDoubleTake
             denominator == FSub(equWrong, equRight)
         IN  IF FNeq(denominator, 0)
             THEN FPercent(FSub(equNoDouble, equRight), denominator)
             ELSE 0
    ELSE NotApplicable

\* c.Doubled is never nil for a decoded record (CubeEntry.FromStream always
\* allocates it), so the analysis branch is always taken
convertCubeEntry(c) ==
    LET position == InitialPosition(c.Position, c.CubeB, c.ActiveP)
    IN  [Position     |-> [position EXCEPT !.Score = c.AScore, !.Cube = c.ACube,
                                           !.CubePos = c.ACubePos],
         ActivePlayer |-> c.ActiveP,
         CubeAction   |-> c.Double,
         Analysis     |-> [CubefulNoDouble      |-> c.AEquB,
                           CubefulDoubleTake    |-> c.AEquDouble,
                           CubefulDoublePass    |-> c.AEquDrop,
                           WrongPassTakePercent |->
                               WrongPassTakePercent(c.AEquB, c.AEquDouble, c.AEquDrop),
                           AnalysisDepth        |-> c.ALevel]]

\* one slot of the played move ([8]int32)
ConvertPlayedSlot(x) ==
    IF x = -1 THEN -1
    ELSE IF x = -2 THEN -2
    ELSE IF x = 24 THEN 25
    ELSE Inc32(x)

\* slots 1..j of an alternative's move ([8]int8); everything after the first -1 is -1
RECURSIVE ConvertAltMove(_, _)
ConvertAltMove(mv, j) ==
    IF j = 0 THEN [out |-> <<>>, endOfMove |-> FALSE]
    ELSE LET prev == ConvertAltMove(mv, j - 1)
             x    == mv[j]
         IN  IF x = -1 \/ prev.endOfMove
             THEN [out |-> Append(prev.out, -1), endOfMove |-> TRUE]
             ELSE [out |-> Append(prev.out, IF x = -2 THEN -2
                                            ELSE IF x = 24 THEN 25
                                            ELSE Inc8(x)),
                   endOfMove |-> FALSE]

\* numMoves: NMoves capped at the array capacity
NumMoves(m) == IF m.NMoves > NAlt THEN NAlt ELSE m.NMoves

\* m.DataMoves is never nil for a decoded record
convertMoveEntry(m) ==
    LET position == InitialPosition(m.Position, m.CubeB, m.ActiveP)
    IN  [Position     |-> [position EXCEPT !.Score = m.AScore, !.Cube = m.ACube,
                                           !.CubePos = m.ACubePos],
         ActivePlayer |-> m.ActiveP,
         Dice         |-> m.Dice,
         PlayedMove   |-> [j \in 1..8 |-> ConvertPlayedSlot(m.Moves[j])],
         Analysis     |-> [i \in 1..Max(NumMoves(m), 0) |->
                              [Position |-> [Checkers |-> ArrayAt(m.PosPlayed, i - 1, ZeroPos),
                                             Cube     |-> m.ACube,
                                             CubePos  |-> m.ACubePos,
                                             Score    |-> m.AScore],
                               Move |-> ConvertAltMove(ArrayAt(m.AltMoves, i - 1, ZeroSlot.Moves), 8).out,
                               AnalysisDepth |-> ArrayAt(m.AltLevel, i - 1, 0)]]]

\* the earlier copy of convertCubeEntry (no perspective swap)
convertCubeEntryLight(c) ==
    [Position     |-> [Checkers |-> c.Position, Cube |-> c.ACube,
                       CubePos |-> c.ACubePos, Score |-> c.AScore],
     ActivePlayer |-> c.ActiveP,
     CubeAction   |-> c.Double,
     Analysis     |-> [CubefulNoDouble      |-> c.AEquB,
                       CubefulDoubleTake    |-> c.AEquDouble,
                       CubefulDoublePass    |-> c.AEquDrop,
                       WrongPassTakePercent |-> 0,
                       AnalysisDepth        |-> c.ALevel]]

\* the earlier copy of convertMoveEntry (no swap, moves copied unchanged)
convertMoveEntryLight(m) ==
    [Position     |-> [Checkers |-> m.Position, Cube |-> m.ACube,
                       CubePos |-> m.ACubePos, Score |-> m.AScore],
     ActivePlayer |-> m.ActiveP,
     Dice         |-> m.Dice,
     PlayedMove   |-> m.Moves,
     Analysis     |-> [i \in 1..Max(NumMoves(m), 0) |->
                          [Position |-> [Checkers |-> ArrayAt(m.PosPlayed, i - 1, ZeroPos),
                                         Cube     |-> m.ACube,
                                         CubePos  |-> m.ACubePos,
                                         Score    |-> m.AScore],
                           Move |-> ArrayAt(m.AltMoves, i - 1, ZeroSlot.Moves),
                           AnalysisDepth |-> ArrayAt(m.AltLevel, i - 1, 0)]]]

-----------------------------------------------------------------------------
(* Domain assembler: ParseXG *)

\* case *HeaderGameEntry: a new current game (hdr: the offset of its header record)
NewGame(r) ==
    [open |-> TRUE, GameNumber |-> r.GameNumber, InitialScore |-> <<r.Score1, r.Score2>>,
     Moves |-> <<>>, Winner |-> 0, PointsWon |-> 0, hdr |-> r.at, ftr |-> -1]

\* case *CubeEntry: the guard on the no-op placeholder
EmitsCubeMove(r) == r.Double # NoOpDouble

\* the guard of the earlier copy of ParseXG: every cube record is converted
EmitsCubeMoveLight(r) == TRUE

\* the Move appended for a cube record (src: the offset of the record it comes from)
CubeMoveOf(r, light) ==
    [MoveType |-> "cube", CheckerMove |-> Nil,
     CubeMove |-> IF light THEN convertCubeEntryLight(r) ELSE convertCubeEntry(r),
     src |-> r.at]

\* the Move appended for a checker record
CheckerMoveOf(r, light) ==
    [MoveType |-> "checker",
     CheckerMove |-> IF light THEN convertMoveEntryLight(r) ELSE convertMoveEntry(r),
     CubeMove |-> Nil, src |-> r.at]

\* mutant of AddMove: the move is put in front
AddMove_Prepend(g, mv) == [g EXCEPT !.Moves = <<mv>> \o @]

\* currentGame.Moves = append(currentGame.Moves, mv)
AddMove(g, mv) == [g EXCEPT !.Moves = Append(@, mv)]

\* case *FooterGameEntry: the game as appended to match.Games
CloseGame(g, r) == [g EXCEPT !.Winner = r.Winner, !.PointsWon = r.PointsWon, !.ftr = r.at]

\* bytes of the fixed part read in one binary.Read: magic, header version, header
\* size, thumbnail offset and size, GUID
GdfFixedSize == 40

\* bytes of each of the four UTF-16 strings (1024 code units)
GdfStringSize == 2048

\* the tag the reversed magic must spell: "HMGR"
GdfMagic == <<72, 77, 71, 82>>

\* the supported header version
GdfVersion == 1

\* mutant of ReverseMagic: the bytes are kept in stream order
ReverseMagic_Kept(magic) == magic

\* g.MagicNumber: the four magic bytes in reverse order
ReverseMagic(magic) == <<magic[4], magic[3], magic[2], magic[1]>>

GdfFailed(cause) == [err |-> cause, GameName |-> <<>>, HeaderVersion |-> 0]

\* GameDataFormatHdrRecord.FromStream on a header h of which the stream holds
\* the first h.len bytes
GameDataFormatHdrRecord_FromStream(h) ==
    IF h.len < GdfFixedSize
    THEN GdfFailed(IF h.len = 0 THEN "EOF" ELSE "unexpected EOF")
    ELSE IF ReverseMagic(h.Magic) # GdfMagic \/ h.HeaderVersion # GdfVersion
    THEN GdfFailed("invalid magic number or version")
    ELSE IF h.len < GdfFixedSize + 4 * GdfStringSize
    THEN GdfFailed(IF (h.len - GdfFixedSize) % GdfStringSize = 0 THEN "EOF"
                   ELSE "unexpected EOF")
    ELSE [err |-> "nil", GameName |-> UTF16IntArrayToString(h.GameName, 1024),
          HeaderVersion |-> h.HeaderVersion]

\* var match Match: the fields of MatchMetadata the model keeps, at their zero values
ZeroMetadata == [ProductVersion |-> <<>>, EngineVersion |-> 0]

\* case *HeaderMatchEntry: match.Metadata = MatchMetadata{...}, a new value whose
\* fields not named in the literal are zero (the earlier copy names no EngineVersion)
MatchMetadataOf(r, light) ==
    [ProductVersion |-> <<>>,
     EngineVersion  |-> IF light THEN 0 ELSE r.Version]

\* the first loop of ParseXG: the product name of the container header segment,
\* when that segment decodes
ProductVersionOf(md, gdf) ==
    LET gdfHeader == GameDataFormatHdrRecord_FromStream(gdf)
    IN  IF gdfHeader.err = "nil" THEN [md EXCEPT !.ProductVersion = gdfHeader.GameName] ELSE md

\* one iteration of the loop over records in ParseXG
ParseXGStep(light) ==
    /\ pc = "assemble"
    /\ idx <= Len(records)
    /\ LET r == records[idx]
       IN  /\ idx' = idx + 1
           /\ fileVersion' = IF r.kind = 0 THEN r.Version ELSE fileVersion
           /\ currentGame' =
                 CASE r.kind = 1 -> NewGame(r)
                   [] r.kind = 2 /\ currentGame.open
                        /\ (IF light THEN EmitsCubeMoveLight(r) ELSE EmitsCubeMove(r)) ->
                        AddMove(currentGame, CubeMoveOf(r, light))
                   [] r.kind = 3 /\ currentGame.open ->
                        AddMove(currentGame, CheckerMoveOf(r, light))
                   [] r.kind = 4 /\ currentGame.open -> NoGame
                   [] OTHER -> currentGame
           /\ games' = IF r.kind = 4 /\ currentGame.open
                       THEN Append(games, CloseGame(currentGame, r))
                       ELSE games
           /\ metadata' = IF r.kind = 0 THEN MatchMetadataOf(r, light) ELSE metadata
    /\ UNCHANGED <<data, pos, version, records, lastErr, pc, result, XGFileMap>>
    /\ UNCHANGED callVars

\* ParseXG of xgtext.go
AssembleRecord == ParseXGStep(FALSE)

\* the earlier copy of ParseXG kept in xglight.go
AssembleRecordLight == ParseXGStep(TRUE)

\* return &match, nil
ReturnMatch ==
    /\ pc = "assemble"
    /\ idx > Len(records)
    /\ pc' = "done"
    /\ result' = "match"
    /\ UNCHANGED <<data, pos, version, records, lastErr, idx, fileVersion, games, currentGame,
                   metadata, XGFileMap>>
    /\ UNCHANGED callVars

-----------------------------------------------------------------------------
(* Specifications *)

\* segment types (iota)
SegmentGDFHdr == 0
SegmentXGGameHdr == 2
SegmentXGGameFile == 3
SegmentXGRollouts == 4
SegmentXGComment == 5

\* var XGFileMap = map[string]int{...}
InitialXGFileMap ==
    [n \in {"temp.xgi", "temp.xgr", "temp.xgc", "temp.xg"} |->
        CASE n = "temp.xgi" -> SegmentXGGameHdr
          [] n = "temp.xgr" -> SegmentXGRollouts
          [] n = "temp.xgc" -> SegmentXGComment
          [] n = "temp.xg"  -> SegmentXGGameFile]

\* the state of ParseXG at entry (at = "header") or at its second loop
\* (at = "read"), before it has read anything of the stream `d`
StartAt(d, at) ==
    /\ data = d
    /\ pos = 0
    /\ version = InitialVersion
    /\ records = <<>>
    /\ lastErr = "nil"
    /\ pc = at
    /\ idx = 1
    /\ fileVersion = InitialVersion
    /\ games = <<>>
    /\ currentGame = NoGame
    /\ result = "none"
    /\ metadata = ZeroMetadata
    /\ XGFileMap = InitialXGFileMap

\* ParseXG on segments without a container header segment
StartOn(d) == StartAt(d, "read")

Init ==
    /\ \E pre \in Prefixes, q \in SlotSeqs(MaxSlots), l \in LastLens :
          StartOn([slots |-> pre \o q, lastLen |-> l])
    /\ input = Nil
    /\ output = <<>>

Next == ParseGameFileStep \/ AssembleRecord \/ ReturnMatch

Spec == Init /\ [][Next]_vars

NextLight == ParseGameFileStep \/ AssembleRecordLight \/ ReturnMatch

SpecLight == Init /\ [][NextLight]_vars

-----------------------------------------------------------------------------
(* Properties of the record stream decoder and the domain assembler *)

\* number of slots of the stream that hold at least the 9 peeked bytes
ReadableSlots ==
    IF Len(data.slots) = 0 THEN 0
    ELSE IF data.lastLen >= PeekSize THEN Len(data.slots) ELSE Len(data.slots) - 1

\* byte offset of slot i (1-based)
OffsetOf(i) == RecordSize * (i - 1)

\* the slot a record or move read at byte offset `at` comes from
SlotOf(at) == (at \div RecordSize) + 1

\* offsets of the slots among the first k whose kind is one of the six known kinds
RECURSIVE KnownOffsets(_)
KnownOffsets(k) ==
    IF k = 0 THEN <<>>
    ELSE IF Implemented(data.slots[k].kind)
         THEN Append(KnownOffsets(k - 1), OffsetOf(k))
         ELSE KnownOffsets(k - 1)

\* every move of every game of match.Games
ReturnedMoves ==
    UNION {{games[g].Moves[m] : m \in 1..Len(games[g].Moves)} : g \in 1..Len(games)}

\* C1: when ParseXG returns a Match, no Move of any Game comes from a cube record
\* whose decision code Double is the no-op sentinel -2.
C1_NoOpCubeEmitsNothing ==
    result = "match" =>
        \A i \in 1..Len(records) :
            (records[i].kind = 2 /\ records[i].Double = NoOpDouble) =>
                ~ \E mv \in ReturnedMoves : mv.src = records[i].at

\* C2: every successful GameFileRecord.FromStream call leaves the read offset at
\* recordStart + 2560, a multiple of 2560, whatever the kind, the version and the
\* number of bytes the type decoder consumed.
C2_SlotAdvance ==
    [][(pc = "read" /\ lastErr' = "nil") =>
            (pos' = pos + RecordSize /\ pos' % RecordSize = 0)]_vars

C2_Witness ==
    /\ pc = "read"
    /\ pos = 3 * RecordSize
    /\ \E i, j \in 1..Len(records) :
          /\ records[i].kind = 0 /\ records[i].Version = 30
          /\ records[j].kind = 3

\* C3: decoding ends without error if and only if the stream ends exactly at a
\* slot boundary; a stream that ends part-way through a slot is an error.
C3_TruncationIsError ==
    pc = "done" => (result = "match" <=> DataLen(data) % RecordSize = 0)

\* C4: a slot with an unknown discriminator yields no record and no error, and the
\* records returned are exactly the known-kind slots, in stream order.
C4_UnknownKindSkipped ==
    pc # "read" =>
        /\ result # "error"
        /\ [i \in 1..Len(records) |-> records[i].at] = KnownOffsets(ReadableSlots)
        /\ \A i \in 1..Len(records) : records[i].kind = data.slots[SlotOf(records[i].at)].kind

C4_Witness ==
    /\ pc = "done"
    /\ result = "match"
    /\ \E i, j \in 1..Len(records) :
          /\ i < j
          /\ \E k \in 1..Len(data.slots) :
                /\ SlotOf(records[i].at) < k /\ k < SlotOf(records[j].at)
                /\ data.slots[k].kind = UnknownKind

\* index of the last match-header record before record i (0 when there is none)
RECURSIVE LastMatchHeader(_)
LastMatchHeader(i) ==
    IF i <= 1 THEN 0
    ELSE IF records[i - 1].kind = 0 THEN i - 1 ELSE LastMatchHeader(i - 1)

\* C5: every game-header, cube, checker and footer record carries (and was decoded
\* with) the Version stored in the most recent match header before it.
C5_VersionFromLastMatchHeader ==
    \A i \in 1..Len(records) :
        (records[i].kind \in 1..5 /\ LastMatchHeader(i) # 0) =>
            records[i].Version = data.slots[SlotOf(records[LastMatchHeader(i)].at)].Version

C5_Witness ==
    \E i \in 1..Len(records) :
        /\ records[i].kind = 2
        /\ records[i].Version = 30
        /\ LastMatchHeader(i) > 1
        /\ records[1].kind = 0 /\ records[1].Version = 23

\* index in records of the record read at byte offset `at`
RecordAt(at) == CHOOSE i \in 1..Len(records) : records[i].at = at

\* the moves a game with header record h and footer record f must hold: the checker
\* records and the cube records whose Double is not the no-op, in stream order
RECURSIVE ExpectedMoves(_, _)
ExpectedMoves(h, f) ==
    IF f <= h + 1 THEN <<>>
    ELSE LET k == f - 1
             r == records[k]
         IN  IF r.kind = 3 THEN Append(ExpectedMoves(h, k), <<r.at, "checker">>)
             ELSE IF r.kind = 2 /\ r.Double # NoOpDouble
                  THEN Append(ExpectedMoves(h, k), <<r.at, "cube">>)
                  ELSE ExpectedMoves(h, k)

\* C6: in the returned Match every Game runs from a game-header record to the next
\* game-footer record, carries that footer's winner and points, and holds exactly the
\* checker and non-no-op cube records between the two, in stream order and tagged
\* with their kind; Games are in header order and every footer that closes an open
\* game yields one.
C6_GamesFromHeaderToFooter ==
    result = "match" =>
        /\ \A g \in 1..Len(games) :
              /\ \E i \in 1..Len(records) : records[i].at = games[g].hdr
              /\ \E i \in 1..Len(records) : records[i].at = games[g].ftr
              /\ LET h == RecordAt(games[g].hdr)
                     f == RecordAt(games[g].ftr)
                 IN  /\ h < f
                     /\ records[h].kind = 1
                     /\ records[f].kind = 4
                     /\ \A k \in (h + 1)..(f - 1) : records[k].kind \notin {1, 4}
                     /\ games[g].GameNumber = records[h].GameNumber
                     /\ games[g].Winner = records[f].Winner
                     /\ games[g].PointsWon = records[f].PointsWon
                     /\ [m \in 1..Len(games[g].Moves) |->
                           <<games[g].Moves[m].src, games[g].Moves[m].MoveType>>]
                        = ExpectedMoves(h, f)
                     /\ \A m \in 1..Len(games[g].Moves) :
                           IF games[g].Moves[m].MoveType = "checker"
                           THEN /\ games[g].Moves[m].CheckerMove # Nil
                                /\ games[g].Moves[m].CubeMove = Nil
                           ELSE /\ games[g].Moves[m].CubeMove # Nil
                                /\ games[g].Moves[m].CheckerMove = Nil
        /\ \A g1, g2 \in 1..Len(games) : g1 < g2 => games[g1].hdr < games[g2].hdr
        /\ \A f \in 1..Len(records) :
              (/\ records[f].kind = 4
               /\ \E h \in 1..(f - 1) :
                     /\ records[h].kind = 1
                     /\ \A k \in (h + 1)..(f - 1) : records[k].kind # 4)
              => \E g \in 1..Len(games) : games[g].ftr = records[f].at

C6_Witness ==
    /\ result = "match"
    /\ \E g \in 1..Len(games) :
          /\ Len(games[g].Moves) = 2
          /\ games[g].Moves[1].MoveType = "checker"
          /\ games[g].Moves[2].MoveType = "cube"
          /\ games[g].Winner = -1
          /\ games[g].PointsWon = 2

\* C7: when GameFileRecord.FromStream reports a read failure, ParseXG returns the
\* error and no Match.
C7_ReadFailureAborts ==
    (pc = "done" /\ lastErr = "ErrUnexpectedEOF") => result = "error"

-----------------------------------------------------------------------------
(* swapPosition applied on its own *)

\* no stream is being parsed
NoStream ==
    /\ StartOn([slots |-> <<>>, lastLen |-> RecordSize])

\* slots and int8 values the sampled boards are built from: both bars, both ends
\* and the middle of the board; both int8 extremes, a full side of 15, small counts
SwapSlots == {0, 1, 12, 24, 25}
SwapValues == {-128, -15, -1, 2, 127}

\* the standard starting position
StartingBoard ==
    [k \in 0..25 |->
        CASE k = 1 -> -2 [] k = 6 -> 5 [] k = 8 -> 3 [] k = 12 -> -5
          [] k = 13 -> 5 [] k = 17 -> -3 [] k = 19 -> -5 [] k = 24 -> 2
          [] OTHER -> 0]

\* a board whose 26 slots all differ
DistinctBoard == [k \in 0..25 |-> k - 12]

SwapBoards ==
    {TwoSlotPos(i, a, j, b) : i \in SwapSlots, j \in SwapSlots, a \in SwapValues, b \in SwapValues}
    \cup {ZeroPos, StartingBoard, DistinctBoard}

\* Positions: every sampled board with cube owners on both sides, centred and at
\* the int32 minimum, and equal and unequal score pairs
SwapInputs ==
    {[Checkers |-> c, Cube |-> cube, CubePos |-> cp, Score |-> sc] :
        c \in SwapBoards, cube \in {1, 64}, cp \in {-1, 0, 1, MinInt32},
        sc \in {<<0, 0>>, <<3, 5>>}}

InitSwap ==
    /\ NoStream
    /\ input \in SwapInputs
    /\ output = <<>>

\* swapPosition applied to the input, then to its own result
ApplySwap ==
    /\ input \in SwapInputs
    /\ Len(output) < 2
    /\ output' = Append(output, swapPosition(IF output = <<>> THEN input ELSE output[Len(output)]))
    /\ UNCHANGED <<streamVars, input>>

NextSwap == ApplySwap

SpecSwap == InitSwap /\ [][NextSwap]_vars

\* C8: swapPosition is an involution: for every Position p (26 checker slots, cube
\* value, cube owner, score pair) swapPosition(swapPosition(p)) equals p in every field.
C8_SwapInvolutive ==
    Len(output) = 2 =>
        /\ \A k \in 0..25 : output[2].Checkers[k] = input.Checkers[k]
        /\ output[2].Cube = input.Cube
        /\ output[2].CubePos = input.CubePos
        /\ output[2].Score = input.Score

C8_Witness ==
    /\ Len(output) = 2
    /\ input.Checkers[0] = -1
    /\ input.Checkers[25] = 2
    /\ input.CubePos = -1
    /\ input.Score = <<3, 5>>
    /\ output[1].Checkers[0] = -2
    /\ output[1].Checkers[25] = 1
    /\ output[1].CubePos = 1
    /\ output[1].Score = <<5, 3>>
    /\ output[2] = input

-----------------------------------------------------------------------------
(* convertCubeEntry and convertMoveEntry applied on their own *)

\* a legal board with a checker count of exactly 30 and men on the bar of the
\* player on roll only
Bar25Board == [TwoSlotPos(6, -13, 13, 15) EXCEPT ![25] = 2]

\* boards stored in the records: 30 checkers (starting position, both bars full,
\* one bar occupied), fewer than 30, none, and one with 31
ConvBoards ==
    {StartingBoard, TwoSlotPos(0, -15, 25, 15), Bar25Board, SamplePos, ZeroPos,
     TwoSlotPos(1, 16, 24, -15)}

\* numbers of analysed alternatives a checker record declares: none, fewer than
\* stored, all stored, more than the arrays hold
ConvNMoves == {0, 1, 2, 40}

ConvCubeInputs ==
    {[CubeSlot(a, d) EXCEPT !.Position = b] :
        a \in {-1, 1}, d \in {NoOpDouble, 0, 1}, b \in ConvBoards}

ConvMoveInputs ==
    {[MoveSlot(a) EXCEPT !.Position = b, !.NMoves = n, !.PosPlayed = <<b1, b2>>] :
        a \in {-1, 1}, b \in ConvBoards, n \in ConvNMoves, b1 \in ConvBoards, b2 \in ConvBoards}

InitConv ==
    /\ NoStream
    /\ input \in ConvCubeInputs \cup ConvMoveInputs
    /\ output = <<>>

\* cube records over every combination of stored cubeful equities (thousandths)
CubeEquities == {-1000, -125, 0, 400, 1000}

CubeEquityInputs ==
    {[CubeSlot(a, 1) EXCEPT !.AEquB = nd, !.AEquDouble = dt, !.AEquDrop = dp] :
        a \in {-1, 1}, nd \in CubeEquities, dt \in CubeEquities, dp \in CubeEquities}

\* cube records whose stored equities are any float32 values: finite, infinite
\* or NaN
FloatEquities == {NegInf, -1000, -125, 0, 400, 1000, PosInf, NaN}

FloatEquityInputs ==
    {[CubeSlot(a, 1) EXCEPT !.AEquB = nd, !.AEquDouble = dt, !.AEquDrop = dp] :
        a \in {-1, 1}, nd \in FloatEquities, dt \in FloatEquities, dp \in FloatEquities}

\* convertCubeEntry on a cube record
ConvertCube ==
    /\ input.kind = 2
    /\ output = <<>>
    /\ output' = <<convertCubeEntry(input)>>
    /\ UNCHANGED <<streamVars, input>>

ConvertMove ==
    /\ input \in ConvMoveInputs
    /\ output = <<>>
    /\ output' = <<convertMoveEntry(input)>>
    /\ UNCHANGED <<streamVars, input>>

NextConv == ConvertCube \/ ConvertMove

SpecConv == InitConv /\ [][NextConv]_vars

\* the boards a record stores: its initial position and, for a checker record,
\* the resulting position of each analysed alternative
StoredBoards(r) ==
    {r.Position} \cup
    (IF r.kind = 3
     THEN {ArrayAt(r.PosPlayed, i - 1, ZeroPos) : i \in 1..Max(NumMoves(r), 0)}
     ELSE {})

\* the boards of the Positions of an emitted move: its initial position and, for
\* a checker move, the position of each analysis alternative
EmittedBoards(r, mv) ==
    {mv.Position.Checkers} \cup
    (IF r.kind = 3
     THEN {mv.Analysis[i].Position.Checkers : i \in 1..Len(mv.Analysis)}
     ELSE {})

\* C9: if every board stored in a record (initial position, each alternative's
\* resulting position) has sum of |slot| <= 30, so has every Position emitted for
\* it (initial position of the move, position of every analysis alternative).
C9_CheckerCountPreserved ==
    Len(output) = 1 =>
        ((\A b \in StoredBoards(input) : AbsSum(b) <= 30)
            => \A b \in EmittedBoards(input, output[1]) : AbsSum(b) <= 30)

C9_Witness ==
    /\ Len(output) = 1
    /\ input.kind = 3
    /\ input.ActiveP = -1
    /\ input.Position = Bar25Board
    /\ input.NMoves = 2
    /\ \A b \in StoredBoards(input) : AbsSum(b) = 30
    /\ output[1].Position.Checkers # input.Position
    /\ Len(output[1].Analysis) = 2
    /\ \A b \in EmittedBoards(input, output[1]) : AbsSum(b) = 30

-----------------------------------------------------------------------------
(* Checksums: hash/crc32 (IEEE) and hash/adler32 *)

\* a uint32 as the set of its one bits (bit k has weight 2^k)
Xor(a, b) == {k \in 0..31 : (k \in a) # (k \in b)}
Shr1(a) == {k - 1 : k \in a \ {0}}
AllOnes == 0..31
ByteBits(x) == {k \in 0..7 : (x \div (2 ^ k)) % 2 = 1}

\* the reversed IEEE polynomial 0xEDB88320
IEEEPoly == {5, 8, 9, 15, 19, 20, 21, 23, 24, 26, 27, 29, 30, 31}

\* one round: crc = crc&1 != 0 ? (crc >> 1) ^ poly : crc >> 1
CrcRound[crc \in SUBSET AllOnes] ==
    IF 0 \in crc THEN Xor(Shr1(crc), IEEEPoly) ELSE Shr1(crc)

\* the register after one more byte: crc ^= b, then eight rounds
CrcByte[crc \in SUBSET AllOnes, b \in 0..255] ==
    CrcRound[CrcRound[CrcRound[CrcRound[CrcRound[CrcRound[CrcRound[CrcRound[
        Xor(crc, ByteBits(b))]]]]]]]]

\* the register after the first n bytes of bs (bytes i..j taken in order, the
\* range split in halves)
CrcUpdate(crc, bs, n) ==
    LET reg[c \in SUBSET AllOnes, i \in Nat, j \in Nat] ==
            IF i > j THEN c
            ELSE IF i = j THEN CrcByte[c, bs[i]]
            ELSE reg[reg[c, i, (i + j) \div 2], ((i + j) \div 2) + 1, j]
    IN  reg[crc, 1, n]

\* crc32.ChecksumIEEE(bs): register preset to all ones, result complemented
ChecksumIEEE(bs) == AllOnes \ CrcUpdate(AllOnes, bs, Len(bs))

\* the two 16-bit sums of Adler-32 after the first k bytes of bs (bytes i..j
\* taken in order, the range split in halves)
AdlerSums(bs, k) ==
    LET sums[st \in [a : Nat, b : Nat], i \in Nat, j \in Nat] ==
            IF i > j THEN st
            ELSE IF i = j
            THEN [a |-> (st.a + bs[i]) % 65521,
                  b |-> (st.b + ((st.a + bs[i]) % 65521)) % 65521]
            ELSE sums[sums[st, i, (i + j) \div 2], ((i + j) \div 2) + 1, j]
    IN  sums[[a |-> 1, b |-> 0], 1, k]

\* adler32.Checksum(bs) as the four bytes of the big-endian uint32 b<<16 | a
Adler32Bytes(bs) ==
    LET sums == AdlerSums(bs, Len(bs))
    IN  <<sums.b \div 256, sums.b % 256, sums.a \div 256, sums.a % 256>>

-----------------------------------------------------------------------------
(* Archive extraction: ZlibArchive.GetArchiveFile *)

\* the byte at offset p (0-based) of stream s
At(s, p) == s[p + 1]

\* number of bytes of s from offset p to its end
Avail(s, p) == Max(Len(s) - p, 0)

Failed(cause) == [err |-> cause, data |-> <<>>]

\* the blocks of a deflate stream read from offset q of s, ds being the bytes
\* produced so far.  A block header is the low 3 bits of a fresh byte (BFINAL,
\* BTYPE); a stored block drops the other 5 bits, then holds LEN, NLEN = ^LEN
\* (little-endian uint16) and LEN bytes.  After the final block the zlib reader
\* compares the 4-byte trailer with the Adler-32 of the produced bytes.
\* Huffman-coded blocks (BTYPE 1 and 2) are not decoded: "huffman" stands for a
\* stream the model takes no position on.
RECURSIVE InflateFrom(_, _, _)
InflateFrom(s, q, ds) ==
    IF Avail(s, q) < 1 THEN Failed("unexpected EOF")
    ELSE LET bfinal == At(s, q) % 2
             btype  == (At(s, q) \div 2) % 4
         IN  IF btype = 3 THEN Failed("flate: corrupt input")
             ELSE IF btype # 0 THEN Failed("huffman")
             ELSE IF Avail(s, q + 1) < 4 THEN Failed("unexpected EOF")
             ELSE LET n  == At(s, q + 1) + 256 * At(s, q + 2)
                      nn == At(s, q + 3) + 256 * At(s, q + 4)
                  IN  IF nn # 65535 - n THEN Failed("flate: corrupt input")
                      ELSE IF Avail(s, q + 5) < n THEN Failed("unexpected EOF")
                      ELSE LET got == ds \o SubSeq(s, q + 6, q + 5 + n)
                               t   == q + 5 + n
                           IN  IF bfinal = 0 THEN InflateFrom(s, t, got)
                               ELSE IF Avail(s, t) < 4 THEN Failed("unexpected EOF")
                               ELSE IF SubSeq(s, t + 1, t + 4) # Adler32Bytes(got)
                                    THEN Failed("zlib: invalid checksum")
                                    ELSE [err |-> "nil", data |-> got]

\* zlib.NewReader followed by io.Copy, on the stream at offset p: the 2-byte
\* header (method 8, window <= 7, CMF*256+FLG divisible by 31; the FLEVEL bits of
\* FLG are not looked at), the preset-dictionary id when FLG has bit 0x20 (no
\* dictionary is supplied, so it must be the Adler-32 of nothing), the blocks
ZlibRead(s, p) ==
    IF Avail(s, p) < 2 THEN Failed("unexpected EOF")
    ELSE LET cmf == At(s, p)
             flg == At(s, p + 1)
         IN  IF cmf % 16 # 8 \/ cmf \div 16 > 7 \/ (cmf * 256 + flg) % 31 # 0
             THEN Failed("zlib: invalid header")
             ELSE IF (flg \div 32) % 2 = 1
             THEN IF Avail(s, p + 2) < 4 THEN Failed("unexpected EOF")
                  ELSE IF SubSeq(s, p + 3, p + 6) # Adler32Bytes(<<>>)
                       THEN Failed("zlib: invalid dictionary")
                       ELSE InflateFrom(s, p + 6, <<>>)
             ELSE InflateFrom(s, p + 2, <<>>)

\* extractSegment(isCompressed, numBytes) with the stream at offset p
extractSegment(s, p, isCompressed, numBytes) ==
    IF isCompressed THEN ZlibRead(s, p)
    ELSE IF numBytes = 0 THEN Failed("numBytes must be specified")
    ELSE IF Avail(s, p) = 0 THEN Failed("EOF")
    ELSE IF Avail(s, p) < numBytes THEN Failed("unexpected EOF")
    ELSE [err |-> "nil", data |-> SubSeq(s, p + 1, p + numBytes)]

\* mutant of GetArchiveFile: the extracted bytes are returned without the CRC check
GetArchiveFile_NoCheck(s, filerec) ==
    LET seg == extractSegment(s, filerec.Start, filerec.Compressed = 0, filerec.CSize)
    IN  IF seg.err # "nil" THEN [err |-> "extract", cause |-> seg.err, data |-> <<>>]
        ELSE [err |-> "nil", cause |-> "nil", data |-> seg.data]

\* GetArchiveFile(filerec) on the archive bytes s (StartOfArcData = 0): an
\* extraction error is wrapped, a CRC mismatch is "file CRC check failed"
GetArchiveFile(s, filerec) ==
    LET seg == extractSegment(s, filerec.Start, filerec.Compressed = 0, filerec.CSize)
    IN  IF seg.err # "nil" THEN [err |-> "extract", cause |-> seg.err, data |-> <<>>]
        ELSE IF ChecksumIEEE(seg.data) # filerec.CRC
             THEN [err |-> "crc", cause |-> "file CRC check failed", data |-> <<>>]
             ELSE [err |-> "nil", cause |-> "nil", data |-> seg.data]

\* contents of the archived files
ArcData == {<<>>, <<65>>, <<65, 66>>}

\* FLG bytes a compressor writes after CMF = 0x78: fastest (0x01) and default (0x9C)
ArcFlags == {1, 156}

\* d as a zlib stream of one final stored block
ZlibStored(d, flg) ==
    <<120, flg, 1, Len(d) % 256, Len(d) \div 256,
      255 - (Len(d) % 256), 255 - (Len(d) \div 256)>> \o d \o Adler32Bytes(d)

\* what precedes the entry in the archive (an earlier entry's bytes) and what
\* follows it (the start of the next zlib stream)
ArcLead == <<7, 7>>
ArcTrail == <<120, 156, 3, 0>>

\* an archive holding the entry bytes bs for the file contents d; Compressed = 0
\* marks a zlib stream, any other value bytes stored as they are
Archive(d, bs, flag) ==
    [stream  |-> ArcLead \o bs \o ArcTrail,
     filerec |-> [OSize |-> Len(d), CSize |-> Len(bs), Start |-> Len(ArcLead),
                  CRC |-> ChecksumIEEE(d), Compressed |-> flag],
     changed |-> 0]

Archives ==
    {Archive(d, ZlibStored(d, flg), 0) : d \in ArcData, flg \in ArcFlags}
    \cup {Archive(d, d, 1) : d \in ArcData}

\* the archive with the byte at position k (1-based) of the entry's stored bytes set to v
WithByte(a, k, v) ==
    [a EXCEPT !.stream[a.filerec.Start + k] = v, !.changed = k]

InitArc ==
    /\ NoStream
    /\ input \in Archives
    /\ output = <<>>

\* one byte inside the entry's stored bytes takes another value; changes after
\* which the reader would meet a Huffman-coded block are left out
ChangeByte ==
    /\ input \in Archives
    /\ output = <<>>
    /\ \E k \in 1..input.filerec.CSize, v \in 0..255 :
          /\ v # input.stream[input.filerec.Start + k]
          /\ GetArchiveFile(WithByte(input, k, v).stream, input.filerec).cause # "huffman"
          /\ input' = WithByte(input, k, v)
    /\ UNCHANGED <<streamVars, output>>

\* za.GetArchiveFile(filerec)
ExtractEntry ==
    /\ "filerec" \in DOMAIN input
    /\ output = <<>>
    /\ output' = <<GetArchiveFile(input.stream, input.filerec)>>
    /\ UNCHANGED <<streamVars, input>>

NextArc == ChangeByte \/ ExtractEntry

SpecArc == InitArc /\ [][NextArc]_vars

\* C10: once a single byte inside an entry's stored compressed bytes has been
\* changed, extraction of the entry never returns bytes successfully (the claim
\* says more: that it fails, and with a checksum error).
C10_ChangedByteNeverExtracts ==
    (Len(output) = 1 /\ input.changed # 0) => output[1].err # "nil"

-----------------------------------------------------------------------------
\* Extraction of entries whose index record may not match what is stored: any
\* compression flag on either layout, a stored CRC that is or is not the one of
\* the file contents

ExtractData == {<<>>, <<65>>, <<65, 66>>, <<66, 65>>}

\* Compressed values: unset, set, set to other non-zero bytes
ExtractFlags == {0, 1, 2, 255}

\* the archive a with the contents the entry was made from, the layout of its
\* stored bytes, the flag f and the CRC of the bytes c in its index record
Entry(a, d, layout, f, c) ==
    [stream  |-> a.stream,
     filerec |-> [a.filerec EXCEPT !.Compressed = f, !.CRC = ChecksumIEEE(c)],
     changed |-> 0, content |-> d, layout |-> layout]

ExtractInputs ==
    {Entry(Archive(d, ZlibStored(d, flg), 0), d, "zlib", f, IF ok THEN d ELSE <<67>>) :
        d \in ExtractData, flg \in ArcFlags, f \in ExtractFlags, ok \in BOOLEAN}
    \cup {Entry(Archive(d, d, 1), d, "raw", f, IF ok THEN d ELSE <<67>>) :
        d \in ExtractData, f \in ExtractFlags, ok \in BOOLEAN}

InitExtract ==
    /\ NoStream
    /\ input \in ExtractInputs
    /\ output = <<>>

NextExtract == ExtractEntry

SpecExtract == InitExtract /\ [][NextExtract]_vars

\* the CSize bytes stored at the entry's offset
StoredBytes(a) ==
    SubSeq(a.stream, a.filerec.Start + 1, a.filerec.Start + a.filerec.CSize)

CorruptFile == "file CRC check failed"

-----------------------------------------------------------------------------
(* Archive open: NewZlibArchive / getArchiveIndex *)

\* size of the ArchiveRecord at the end of the stream
TrailerSize == 36

\* size of one file record of the index: two 256-byte strings, four 32-bit
\* integers, two flag bytes, two padding bytes
FileRecSize == 532

\* a non-negative int32 as 4 little-endian bytes
LE32(n) == <<n % 256, (n \div 256) % 256, (n \div 65536) % 256, (n \div 16777216) % 256>>

\* a uint32 given as the set of its one bits, as 4 little-endian bytes
LE32Bits(c) ==
    [j \in 1..4 |->
        LET bit(k) == IF (8 * (j - 1) + k) \in c THEN 2 ^ k ELSE 0
        IN  bit(0) + bit(1) + bit(2) + bit(3) + bit(4) + bit(5) + bit(6) + bit(7)]

\* binary.Read of an int32 at offset p: little-endian, two's complement
Int32At(s, p) ==
    LET top == At(s, p + 3)
    IN  At(s, p) + 256 * At(s, p + 1) + 65536 * At(s, p + 2)
        + 16777216 * (IF top >= 128 THEN top - 256 ELSE top)

\* binary.Read of a uint32 at offset p, as the set of its one bits
Uint32At(s, p) ==
    {b \in AllOnes : (At(s, p + (b \div 8)) \div (2 ^ (b % 8))) % 2 = 1}

\* binary.Read(za.stream, &za.ArcRec) at offset p
ArchiveRecordAt(s, p) ==
    [CRC                |-> Uint32At(s, p),
     FileCount          |-> Int32At(s, p + 4),
     Version            |-> Int32At(s, p + 8),
     RegistrySize       |-> Int32At(s, p + 12),
     ArchiveSize        |-> Int32At(s, p + 16),
     CompressedRegistry |-> Int32At(s, p + 20)]

\* StreamCRC32(r, numBytes, startPos) with the stream at offset cur: the seek is
\* skipped for a negative startPos, io.CopyN fails with EOF when fewer than
\* numBytes bytes are left, and numBytes <= 0 takes everything up to the end
StreamCRC32(s, numBytes, startPos, cur) ==
    LET from == IF startPos >= 0 THEN startPos ELSE cur
    IN  IF numBytes > 0
        THEN IF Avail(s, from) < numBytes THEN [err |-> "EOF", crc |-> {}]
             ELSE [err |-> "nil", crc |-> ChecksumIEEE(SubSeq(s, from + 1, from + numBytes))]
        ELSE [err |-> "nil", crc |-> ChecksumIEEE(SubSeq(s, from + 1, Len(s)))]

\* DelphiShortStrToStr: a length byte, then that many characters
DelphiShortStrToStr(bs) ==
    LET length == IF bs[1] >= Len(bs) THEN Len(bs) - 1 ELSE bs[1]
    IN  SubSeq(bs, 2, length + 1)

\* end offsets, within a file record, of the fields read one binary.Read each:
\* name, path, OSize, CSize, Start, CRC, Compressed, CompressionLevel
FileRecFieldEnds == <<256, 512, 516, 520, 524, 528, 529, 530>>

\* the error of the first field read that finds fewer bytes than it needs when
\* avail bytes are left: EOF when none is left, ErrUnexpectedEOF when some are
FileRecReadErr(avail) ==
    IF avail >= FileRecFieldEnds[8] THEN "nil"
    ELSE LET f     == CHOOSE i \in 1..8 : FileRecFieldEnds[i] > avail
                          /\ \A j \in 1..(i - 1) : FileRecFieldEnds[j] <= avail
             begin == IF f = 1 THEN 0 ELSE FileRecFieldEnds[f - 1]
         IN  IF avail = begin THEN "EOF" ELSE "unexpected EOF"

\* the file record decoded from the index bytes d at offset q
FileRecordAt(d, q) ==
    [Name       |-> DelphiShortStrToStr(SubSeq(d, q + 1, q + 256)),
     Path       |-> DelphiShortStrToStr(SubSeq(d, q + 257, q + 512)),
     OSize      |-> Int32At(d, q + 512),
     CSize      |-> Int32At(d, q + 516),
     Start      |-> Int32At(d, q + 520),
     CRC        |-> Uint32At(d, q + 524),
     Compressed |-> At(d, q + 528)]

\* the loop over FileCount file records; the read of the two padding bytes may
\* fail without an error
RECURSIVE ReadRegistry(_, _, _)
ReadRegistry(d, q, count) ==
    IF count <= 0 THEN [err |-> "nil", registry |-> <<>>]
    ELSE LET e == FileRecReadErr(Avail(d, q))
         IN  IF e # "nil" THEN [err |-> e, registry |-> <<>>]
             ELSE LET rest == ReadRegistry(d, q + FileRecSize, count - 1)
                  IN  [err |-> rest.err,
                       registry |-> IF rest.err = "nil"
                                    THEN <<FileRecordAt(d, q)>> \o rest.registry
                                    ELSE <<>>]

\* mutant of ArcDataStart: the checksummed range starts at the index
ArcDataStart_AtIndex(indexPos, arcrec) == indexPos

\* za.StartOfArcData: the index offset less the size of the archived files
ArcDataStart(indexPos, arcrec) == indexPos - arcrec.ArchiveSize

\* a failed open: the error, and the stages that ran before it
OpenFailed(cause, ran) ==
    [err |-> cause, ran |-> ran, registry |-> <<>>, StartOfArcData |-> 0]

\* getArchiveIndex on the stream s.  `ran` lists the stages passed in order:
\* "crc" the checksum comparison, "extract" the index decompression, "decode"
\* the decoding of the file records
getArchiveIndex(s) ==
    IF Len(s) < TrailerSize THEN OpenFailed("seek: negative position", <<>>)
    ELSE LET endOfArcData == Len(s) - TrailerSize
             arcrec       == ArchiveRecordAt(s, endOfArcData)
             indexPos     == endOfArcData - arcrec.RegistrySize
         IN  IF indexPos < 0 THEN OpenFailed("seek: negative position", <<>>)
             ELSE LET start == ArcDataStart(indexPos, arcrec)
                      sum   == StreamCRC32(s, endOfArcData - start, start, indexPos)
                  IN  IF sum.err # "nil" THEN OpenFailed(sum.err, <<>>)
                      ELSE IF sum.crc # arcrec.CRC
                      THEN OpenFailed("archive CRC check failed - file corrupt", <<"crc">>)
                      ELSE LET seg == extractSegment(s, indexPos, arcrec.CompressedRegistry # 0, 0)
                           IN  IF seg.err # "nil"
                               THEN OpenFailed("error extracting archive index", <<"crc", "extract">>)
                               ELSE IF arcrec.FileCount < 0
                               THEN OpenFailed("panic: makeslice: len out of range",
                                               <<"crc", "extract">>)
                               ELSE LET reg == ReadRegistry(seg.data, 0, arcrec.FileCount)
                                    IN  [err |-> reg.err,
                                         ran |-> <<"crc", "extract", "decode">>,
                                         registry |-> reg.registry,
                                         StartOfArcData |-> start]

\* a string as the 256 bytes of a Delphi short string
ShortStr(str) == [i \in 1..256 |-> IF i = 1 THEN Len(str)
                                   ELSE IF i - 1 <= Len(str) THEN str[i - 1] ELSE 0]

\* the 532 bytes of the index entry of a file record
FileRecBytes(fr) ==
    ShortStr(fr.Name) \o ShortStr(fr.Path) \o LE32(fr.OSize) \o LE32(fr.CSize)
    \o LE32(fr.Start) \o LE32Bits(fr.CRC) \o <<fr.Compressed, 0, 0, 0>>

\* the 36 bytes of the archive record that closes an archive whose archived
\* files take the bytes `files` and whose index is stored as `zindex`
TrailerBytes(files, zindex, fileCount) ==
    LE32Bits(ChecksumIEEE(files \o zindex)) \o LE32(fileCount) \o LE32(1)
    \o LE32(Len(zindex)) \o LE32(Len(files)) \o LE32(1)
    \o <<0, 0, 0, 0, 0, 0, 0, 0, 0, 0, 0, 0>>

\* a container: what precedes the archive, the archived files, the compressed
\* index, the archive record
Container(lead, files, index, fileCount) ==
    LET zindex == ZlibStored(index, 156)
    IN  [stream  |-> lead \o files \o zindex \o TrailerBytes(files, zindex, fileCount),
         changed |-> 0]

\* the one archived file of the sampled containers, stored as a zlib stream
OneFile == ZlibStored(<<65>>, 156)

OneFileRec ==
    [Name |-> <<116, 46, 120, 103>>, Path |-> <<>>, OSize |-> 1, CSize |-> Len(OneFile),
     Start |-> 0, CRC |-> ChecksumIEEE(<<65>>), Compressed |-> 0]

\* contents of the archived-files area: nothing, two stray bytes, one file
ContainerFiles == {<<>>, <<65, 66>>, OneFile}

\* index contents with the file count announced for them: an empty index, and
\* an index cut short inside its only entry
ContainerIndexes ==
    {[index |-> <<>>, count |-> 0],
     [index |-> SubSeq(FileRecBytes(OneFileRec), 1, 8), count |-> 1]}

\* the sampled containers, and the container of the one file with its full index
Containers ==
    {Container(lead, files, ix.index, ix.count) :
        lead \in {<<>>, <<1, 2>>}, files \in ContainerFiles, ix \in ContainerIndexes}
    \cup {Container(<<>>, OneFile, FileRecBytes(OneFileRec), 1)}

\* offsets at which a byte of a container may be altered: its first bytes (the
\* lead, the archived files, the head of the index) and its last ones (the tail
\* of the index and the archive record)
ChangeOffsets(s) == {p \in 0..(Len(s) - 1) : p < 16 \/ p >= Len(s) - TrailerSize - 8}

ChangeValues == {0, 1, 255}

InitOpen ==
    /\ NoStream
    /\ input \in Containers
    /\ output = <<>>

\* one byte of the container takes another value
CorruptContainer ==
    /\ input \in Containers
    /\ output = <<>>
    /\ \E p \in ChangeOffsets(input.stream), v \in ChangeValues :
          /\ v # At(input.stream, p)
          /\ input' = [input EXCEPT !.stream[p + 1] = v, !.changed = p + 1]
    /\ UNCHANGED <<streamVars, output>>

\* NewZlibArchive(stream)
OpenArchive ==
    /\ DOMAIN input = {"stream", "changed"}
    /\ output = <<>>
    /\ output' = <<getArchiveIndex(input.stream)>>
    /\ UNCHANGED <<streamVars, input>>

NextOpen == CorruptContainer \/ OpenArchive

SpecOpen == InitOpen /\ [][NextOpen]_vars

\* the archive record of the opened container, and the offsets it announces
OpenedRec == ArchiveRecordAt(input.stream, Len(input.stream) - TrailerSize)
OpenedEnd == Len(input.stream) - TrailerSize
OpenedIndexPos == OpenedEnd - OpenedRec.RegistrySize
OpenedDataPos == OpenedIndexPos - OpenedRec.ArchiveSize

CorruptError == "archive CRC check failed - file corrupt"

\* the open got as far as comparing checksums
ChecksumCompared == Len(output) = 1 /\ Len(output[1].ran) >= 1

\* C11 as stated: the stored checksum is compared with the checksum of exactly
\* the index bytes [archiveEnd - trailerSize - indexSize, archiveEnd - trailerSize),
\* and a mismatch fails the open with the file-corrupt error before the index is
\* decompressed or decoded.
C11_IndexRangeChecksum ==
    ChecksumCompared =>
        /\ output[1].err = CorruptError
              <=> ChecksumIEEE(SubSeq(input.stream, OpenedIndexPos + 1, OpenedEnd)) # OpenedRec.CRC
        /\ output[1].err = CorruptError => output[1].ran = <<"crc">>

\* C11 amended: the stored checksum is compared with the checksum of the byte
\* range [archiveEnd - trailerSize - indexSize - archiveSize, archiveEnd - trailerSize),
\* the archived files followed by the index (for a range that is not empty and
\* starts inside the stream); a mismatch fails the open with the file-corrupt
\* error before the index is decompressed or any index entry is decoded.
C11_ArchiveRangeChecksum ==
    (/\ Len(output) = 1
     /\ Len(input.stream) >= TrailerSize
     /\ OpenedIndexPos >= 0
     /\ OpenedDataPos >= 0
     /\ OpenedDataPos < OpenedEnd) =>
        /\ ChecksumCompared
        /\ output[1].err = CorruptError
              <=> ChecksumIEEE(SubSeq(input.stream, OpenedDataPos + 1, OpenedEnd)) # OpenedRec.CRC
        /\ output[1].err = CorruptError => output[1].ran = <<"crc">>

\* a byte of the archived files was altered, the index is intact, and the open
\* failed at the checksum comparison
C11_Witness ==
    /\ Len(output) = 1
    /\ input.changed > OpenedDataPos
    /\ input.changed <= OpenedIndexPos
    /\ OpenedRec.ArchiveSize = Len(OneFile)
    /\ OpenedRec.FileCount = 1
    /\ output[1].err = CorruptError
    /\ output[1].ran = <<"crc">>
    /\ output[1].registry = <<>>

-----------------------------------------------------------------------------
(* Container header: GameDataFormatHdrRecord.FromStream *)

\* magic bytes as stored: the tag reversed ("RGMH"), the tag itself, the tag
\* reversed with its last or first byte off by one, zeros
GdfMagicSamples ==
    {<<82, 71, 77, 72>>, <<72, 77, 71, 82>>, <<82, 71, 77, 73>>, <<83, 71, 77, 72>>,
     <<0, 0, 0, 0>>}

\* header versions: the supported one, its neighbours, -1, one whose low byte is 1
GdfVersionSamples == {1, 0, 2, -1, 257}

\* number of header bytes the stream holds: none, one short of the fixed part,
\* the fixed part only, one string and a half, all of it
GdfLens == {0, 39, 40, 2088, 5000, 8232}

\* product names: none, "XG", one with an embedded NUL, one with a lone surrogate
GdfNames == {<<>>, <<88, 71>>, <<88, 0, 71>>, <<55296, 88>>}

GdfHeaders ==
    {[Magic |-> mg, HeaderVersion |-> v, GameName |-> nm, len |-> l] :
        mg \in GdfMagicSamples, v \in GdfVersionSamples, nm \in GdfNames, l \in GdfLens}

InitHdr ==
    /\ NoStream
    /\ input \in GdfHeaders
    /\ output = <<>>

DecodeHeader ==
    /\ input \in GdfHeaders
    /\ output = <<>>
    /\ output' = <<GameDataFormatHdrRecord_FromStream(input)>>
    /\ UNCHANGED <<streamVars, input>>

NextHdr == DecodeHeader

SpecHdr == InitHdr /\ [][NextHdr]_vars

FormatError == "invalid magic number or version"

\* C12: decoding a container header whose fixed part is there fails with the
\* format error exactly when the 4 magic bytes, reversed, differ from "HMGR" or
\* the header version differs from 1.
C12_FormatErrorIffBadMagicOrVersion ==
    (Len(output) = 1 /\ input.len >= GdfFixedSize) =>
        (output[1].err = FormatError
            <=> (<<input.Magic[4], input.Magic[3], input.Magic[2], input.Magic[1]>>
                    # <<72, 77, 71, 82>>
                 \/ input.HeaderVersion # 1))

\* a complete header of version 1 that spells the tag in stream order is rejected
C12_Witness ==
    /\ Len(output) = 1
    /\ input.len = 8232
    /\ input.HeaderVersion = 1
    /\ input.Magic = <<72, 77, 71, 82>>
    /\ output[1].err = FormatError

-----------------------------------------------------------------------------
\* A complete one-game file: match header, game header, one checker record, one
\* cube record, game footer, match footer

\* search depths stored for the alternatives, one per slot of the array
SampleDepths == <<3, 0, 1, 2, 4>> \o [i \in 1..27 |-> (i % 5)]

SampleAltCounts == {0, 1, 2, 5, 32}

SampleEquities == {-1000, -125, 0, 400, 1000}

\* the checker record with n stored alternatives
SampleMoveSlot(a, n) ==
    [MoveSlot(a) EXCEPT !.NMoves = n,
                        !.PosPlayed = [i \in 1..n |-> IF i % 2 = 1 THEN SampleAlt1 ELSE SampleAlt2],
                        !.AltMoves = [i \in 1..n |-> <<23, 17, 24, 20, -1, -1, -1, -1>>],
                        !.AltLevel = SubSeq(SampleDepths, 1, n)]

SampleStream(v, a, n, d, et, ep) ==
    [slots   |-> <<MatchHeaderSlot(v), GameHeaderSlot(1), SampleMoveSlot(a, n),
                   [CubeSlot(-a, d) EXCEPT !.AEquDouble = et, !.AEquDrop = ep],
                   GameFooterSlot(a), MatchFooterSlot>>,
     lastLen |-> RecordSize]

InitSample ==
    /\ \E v \in {23, 30}, a \in {-1, 1}, n \in SampleAltCounts, d \in {0, 1},
          et \in SampleEquities, ep \in SampleEquities :
          StartOn(SampleStream(v, a, n, d, et, ep))
    /\ input = Nil
    /\ output = <<>>

SpecSample == InitSample /\ [][Next]_vars

\* C16: a stream of a match header, a game header, a checker record with n
\* stored alternatives, a cube record that is not the no-op placeholder, a game
\* footer and a match footer decodes to one Game with two Moves: a checker move
\* with n Analysis entries, entry i carrying the stored search depth of
\* alternative i, then a cube move whose double/take and double/pass equities
\* are the stored ones.
C16_OneGameTwoMoves ==
    result = "match" =>
        LET chk  == data.slots[3]
            cube == data.slots[4]
        IN  /\ Len(games) = 1
            /\ Len(games[1].Moves) = 2
            /\ games[1].Moves[1].MoveType = "checker"
            /\ Len(games[1].Moves[1].CheckerMove.Analysis) = chk.NMoves
            /\ \A i \in 1..chk.NMoves :
                   games[1].Moves[1].CheckerMove.Analysis[i].AnalysisDepth = chk.AltLevel[i]
            /\ games[1].Moves[2].MoveType = "cube"
            /\ games[1].Moves[2].CubeMove.Analysis.CubefulDoubleTake = cube.AEquDouble
            /\ games[1].Moves[2].CubeMove.Analysis.CubefulDoublePass = cube.AEquDrop

\* the file with 5 alternatives has been decoded, and the depths and equities
\* it stores are not all alike
C16_Witness ==
    /\ result = "match"
    /\ Len(data.slots) = 6
    /\ data.slots[3].NMoves = 5
    /\ Len(games) = 1
    /\ Len(games[1].Moves[1].CheckerMove.Analysis) = 5
    /\ games[1].Moves[1].CheckerMove.Analysis[1].AnalysisDepth = 3
    /\ games[1].Moves[1].CheckerMove.Analysis[2].AnalysisDepth = 0
    /\ games[1].Moves[2].CubeMove.Analysis.CubefulDoubleTake = 400
    /\ games[1].Moves[2].CubeMove.Analysis.CubefulDoublePass = -125

-----------------------------------------------------------------------------
\* ParseXG on the segments of a file: the container header segment (input) and
\* one game-file segment (data)

\* container headers: the tag as stored or not, complete or cut after the fixed
\* part, with each product name
FileHeaders ==
    {h \in GdfHeaders : /\ h.Magic \in {<<82, 71, 77, 72>>, <<72, 77, 71, 82>>}
                        /\ h.HeaderVersion = GdfVersion
                        /\ h.len \in {40, 8232}}

\* game-file segments: empty, a lone match header, a game without a match
\* header, a match header after the game, the complete one-game file
FileStreams ==
    {[slots |-> q, lastLen |-> RecordSize] :
        q \in {<<>>,
               <<MatchHeaderSlot(30)>>,
               <<GameHeaderSlot(1), SampleMoveSlot(1, 1), GameFooterSlot(1)>>,
               <<GameHeaderSlot(1), GameFooterSlot(1), MatchHeaderSlot(23)>>,
               SampleStream(30, 1, 2, 1, 400, 1000).slots}}

InitFile ==
    /\ \E d \in FileStreams : StartAt(d, "header")
    /\ input \in FileHeaders
    /\ output = <<>>

\* the loop over the segments that looks for the container header
ExtractProductVersion ==
    /\ pc = "header"
    /\ metadata' = ProductVersionOf(metadata, input)
    /\ pc' = "read"
    /\ UNCHANGED <<data, pos, version, records, lastErr, idx, fileVersion, games, currentGame,
                   result, XGFileMap>>
    /\ UNCHANGED callVars

NextFile == ExtractProductVersion \/ ParseGameFileStep \/ AssembleRecord \/ ReturnMatch

SpecFile == InitFile /\ [][NextFile]_vars

\* the container header decodes and carries a product name
CarriesProductName(h) ==
    /\ GameDataFormatHdrRecord_FromStream(h).err = "nil"
    /\ GameDataFormatHdrRecord_FromStream(h).GameName # <<>>

\* C17: after a successful decode of a file whose container header carries a
\* product name and whose record stream holds a match header, the
\* ProductVersion of the Match metadata is that product name.
C17_ProductVersionFromHeader ==
    (/\ result = "match"
     /\ CarriesProductName(input)
     /\ \E i \in 1..Len(records) : records[i].kind = 0)
        => metadata.ProductVersion = GameDataFormatHdrRecord_FromStream(input).GameName

-----------------------------------------------------------------------------
\* Two whole-file decodes (ParseXGFromReader) running at once, each on its own
\* buffer. input is the pair of buffers, output the pair of decodes' local
\* states; the only package-level state the pipeline touches is XGFileMap.

\* ParseGameFile as a function of the segment bytes and the version passed in
RECURSIVE ParseGameFileFrom(_, _, _, _)
ParseGameFileFrom(d, p, v, recs) ==
    LET r == GameFileRecord_FromStream(d, p, v)
    IN  IF r.err = "nil"
        THEN ParseGameFileFrom(d, r.pos, IF r.rec # Nil THEN NextVersion(r.rec, v) ELSE v,
                               AppendRecord(recs, r.rec))
        ELSE IF r.err = "EOF" \/ ReaderLen(d, r.pos) = 0
        THEN [err |-> "nil", records |-> recs]
        ELSE [err |-> r.err, records |-> <<>>]

ParseGameFile(d, v) == ParseGameFileFrom(d, 0, v, <<>>)

\* the body of the loop over records in ParseXG, on its local variables
AssembleOne(st, r) ==
    [fileVersion |-> IF r.kind = 0 THEN r.Version ELSE st.fileVersion,
     currentGame |->
         CASE r.kind = 1 -> NewGame(r)
           [] r.kind = 2 /\ st.currentGame.open /\ EmitsCubeMove(r) ->
                AddMove(st.currentGame, CubeMoveOf(r, FALSE))
           [] r.kind = 3 /\ st.currentGame.open ->
                AddMove(st.currentGame, CheckerMoveOf(r, FALSE))
           [] r.kind = 4 /\ st.currentGame.open -> NoGame
           [] OTHER -> st.currentGame,
     games |-> IF r.kind = 4 /\ st.currentGame.open
               THEN Append(st.games, CloseGame(st.currentGame, r))
               ELSE st.games,
     metadata |-> IF r.kind = 0 THEN MatchMetadataOf(r, FALSE) ELSE st.metadata]

RECURSIVE AssembleAll(_, _, _)
AssembleAll(st, recs, i) ==
    IF i > Len(recs) THEN st ELSE AssembleAll(AssembleOne(st, recs[i]), recs, i + 1)

\* the loop over the segments in ParseXG, from segment i on
RECURSIVE ParseXGFrom(_, _, _)
ParseXGFrom(st, segments, i) ==
    IF i > Len(segments)
    THEN [err |-> "nil", Games |-> st.games, Metadata |-> st.metadata]
    ELSE IF segments[i].Type # SegmentXGGameFile
    THEN ParseXGFrom(st, segments, i + 1)
    ELSE LET parsed == ParseGameFile(segments[i].Data, st.fileVersion)
         IN  IF parsed.err # "nil"
             THEN [err |-> parsed.err, Games |-> <<>>, Metadata |-> ZeroMetadata]
             ELSE ParseXGFrom(AssembleAll(st, parsed.records, 1), segments, i + 1)

\* ParseXG; the container header segment is the first segment of the list
ParseXG(segments) ==
    ParseXGFrom([fileVersion |-> InitialVersion, currentGame |-> NoGame, games |-> <<>>,
                 metadata |-> IF segments # <<>> /\ segments[1].Type = SegmentGDFHdr
                              THEN ProductVersionOf(ZeroMetadata, segments[1].Data)
                              ELSE ZeroMetadata],
                segments, 2)

\* mutant of XGFileMapAfterLookup: a name that is looked up and missing is entered
\* as a game file
XGFileMapAfterLookup_Insert(map, name) ==
    [n \in DOMAIN map \cup {name} |-> IF n \in DOMAIN map THEN map[n] ELSE SegmentXGGameFile]

\* XGFileMap[fileRec.Name] is a read: the map is what it was
XGFileMapAfterLookup(map, name) == map

\* the value of XGFileMap[name]: the zero value for a missing key
Lookup(map, name) == IF name \in DOMAIN map THEN map[name] ELSE 0

\* a decode that has not started on buffer b
NewDecode(b) ==
    [pc |-> "open", buf |-> b, next |-> 1, segments |-> <<>>,
     result |-> [err |-> "none", Games |-> <<>>, Metadata |-> ZeroMetadata]]

\* one step of ParseXGFromReader on its local state st with the package map as
\* it is now: the state and the map after the step
DecodeStep(st, map) ==
    CASE st.pc = "open" ->
            LET gdfHeader == GameDataFormatHdrRecord_FromStream(st.buf.gdf)
            IN  IF gdfHeader.err # "nil"
                THEN [st  |-> [st EXCEPT !.pc = "done",
                                         !.result = [err |-> gdfHeader.err, Games |-> <<>>,
                                                     Metadata |-> ZeroMetadata]],
                      map |-> map]
                ELSE [st  |-> [st EXCEPT !.pc = "files",
                                         !.segments = <<[Type |-> SegmentGDFHdr,
                                                         Data |-> st.buf.gdf,
                                                         Filename |-> ""]>>],
                      map |-> map]
      [] st.pc = "files" /\ st.next <= Len(st.buf.files) ->
            LET fileRec == st.buf.files[st.next]
            IN  [st  |-> [st EXCEPT !.next = @ + 1,
                                    !.segments = Append(@, [Type |-> Lookup(map, fileRec.Name),
                                                            Data |-> fileRec.Data,
                                                            Filename |-> fileRec.Name])],
                 map |-> XGFileMapAfterLookup(map, fileRec.Name)]
      [] st.pc = "files" /\ st.next > Len(st.buf.files) ->
            [st  |-> [st EXCEPT !.pc = "done", !.result = ParseXG(st.segments)],
             map |-> map]
      [] OTHER -> [st |-> st, map |-> map]

\* the decode of buffer b run alone, from the map as the package declares it
RECURSIVE RunFrom(_, _)
RunFrom(st, map) ==
    IF st.pc = "done" THEN st.result
    ELSE RunFrom(DecodeStep(st, map).st, DecodeStep(st, map).map)

RunAlone(b) == RunFrom(NewDecode(b), InitialXGFileMap)

ParHeader == [Magic |-> <<82, 71, 77, 72>>, HeaderVersion |-> GdfVersion,
              GameName |-> <<88, 71>>, len |-> 8232]

Whole(q) == [slots |-> q, lastLen |-> RecordSize]

\* buffers, each given by its container header and by the files of its archive
\* as NewZlibArchive and GetArchiveFile hand them over (both work on the
\* buffer's own reader): a one-game file with its side files, a file whose game file comes
\* with a file of an unknown name, a file that is all unknown names, a file with
\* a bad container header
ParBuffers ==
    {[gdf |-> ParHeader,
      files |-> <<[Name |-> "temp.xgi", Data |-> Whole(<<>>)],
                  [Name |-> "temp.xg", Data |-> SampleStream(30, 1, 2, 1, 400, 1000)]>>],
     [gdf |-> ParHeader,
      files |-> <<[Name |-> "other.bin",
                   Data |-> Whole(<<MatchHeaderSlot(23), GameHeaderSlot(2), GameFooterSlot(-1)>>)],
                  [Name |-> "temp.xg",
                   Data |-> Whole(<<GameHeaderSlot(1), SampleMoveSlot(-1, 1), GameFooterSlot(1)>>)]>>],
     [gdf |-> ParHeader,
      files |-> <<[Name |-> "other.bin", Data |-> Whole(<<GameHeaderSlot(3), GameFooterSlot(1)>>)],
                  [Name |-> "temp.xgc", Data |-> Whole(<<>>)]>>],
     [gdf |-> [ParHeader EXCEPT !.Magic = <<72, 77, 71, 82>>],
      files |-> <<[Name |-> "temp.xg", Data |-> Whole(<<MatchHeaderSlot(30)>>)]>>]}

InitPar ==
    /\ NoStream
    /\ input \in [1..2 -> ParBuffers]
    /\ output = [k \in 1..2 |-> NewDecode(input[k])]

\* one step of decode k, whatever the other decode is doing
DecodeStepOf(k) ==
    /\ output[k].pc # "done"
    /\ LET after == DecodeStep(output[k], XGFileMap)
       IN  /\ output' = [output EXCEPT ![k] = after.st]
           /\ XGFileMap' = after.map
    /\ UNCHANGED <<data, pos, version, records, lastErr, pc, idx, fileVersion, games, currentGame,
                   result, metadata, input>>

NextPar == \E k \in 1..2 : DecodeStepOf(k)

SpecPar == InitPar /\ [][NextPar]_vars

\* C18: whole-file decodes of independent buffers share no mutable state: under
\* every interleaving of the steps of two decodes, each decode that has finished
\* has the result it has when run alone, and the package map is never changed.
C18_ConcurrentDecodesIndependent ==
    (DOMAIN output = 1..2 /\ DOMAIN input = 1..2) =>
        /\ XGFileMap = InitialXGFileMap
        /\ \A k \in 1..2 : output[k].pc = "done" => output[k].result = RunAlone(input[k])

\* both decodes have finished, after the second one looked up a name the first
\* one had looked up before, and both returned games
C18_Witness ==
    /\ DOMAIN output = 1..2
    /\ output[1].pc = "done" /\ output[2].pc = "done"
    /\ input[1] # input[2]
    /\ \E i \in 1..Len(input[1].files), j \in 1..Len(input[2].files) :
          input[1].files[i].Name = "other.bin" /\ input[2].files[j].Name = "other.bin"
    /\ output[1].result.err = "nil" /\ output[2].result.err = "nil"
    /\ Len(output[1].result.Games) = 1

-----------------------------------------------------------------------------
\* Perspective of the emitted Positions (runs under SpecConv)

\* the Position a record stores for board b: the board with the cube owner and
\* the score pair of the record's analysis block
StoredPosition(r, b) ==
    [Checkers |-> b, Cube |-> r.ACube, CubePos |-> r.ACubePos, Score |-> r.AScore]

\* the Positions emitted for record r as move mv, each paired with the stored
\* Position it comes from
EmittedPositions(r, mv) ==
    {[stored |-> StoredPosition(r, r.Position), emitted |-> mv.Position]} \cup
    (IF r.kind = 3
     THEN {[stored  |-> StoredPosition(r, ArrayAt(r.PosPlayed, i - 1, ZeroPos)),
            emitted |-> mv.Analysis[i].Position] : i \in DOMAIN mv.Analysis}
     ELSE {})

\* the emitted Position e is the stored one s seen from the other side
FullReversal(s, e) ==
    /\ \A i \in 0..25 : e.Checkers[i] = Neg8(s.Checkers[25 - i])
    /\ e.CubePos = Neg32(s.CubePos)
    /\ e.Score = <<s.Score[2], s.Score[1]>>

Unchanged(s, e) ==
    /\ e.Checkers = s.Checkers
    /\ e.CubePos = s.CubePos
    /\ e.Score = s.Score

\* C14: every Position emitted for a cube or checker record whose active player
\* is -1 is the full reversal of the stored one (all 26 slots reflected and
\* negated, cube owner negated, scores swapped); for any other active player the
\* stored values are emitted unchanged.
C14_ReversedForActivePlayerMinusOne ==
    Len(output) = 1 =>
        \A p \in EmittedPositions(input, output[1]) :
            IF input.ActiveP = -1 THEN FullReversal(p.stored, p.emitted)
                                  ELSE Unchanged(p.stored, p.emitted)

-----------------------------------------------------------------------------
\* Move remapping: one stored 8-slot move converted both as the played move and
\* as the first analysis alternative of the same checker record

RemapSlotValues == {-2, -1, 0, 5, 23, 24}

\* moves whose first four slots take every value and whose tail is either
\* unused or holds leftover points
RemapMoves ==
    {<<a, b, c, d, t, t, t, t>> :
        a \in RemapSlotValues, b \in RemapSlotValues, c \in RemapSlotValues,
        d \in RemapSlotValues, t \in {-1, 3}}

RemapInputs ==
    {[MoveSlot(1) EXCEPT !.Moves = mv, !.NMoves = 1, !.AltMoves = <<mv>>] : mv \in RemapMoves}

InitRemap ==
    /\ NoStream
    /\ input \in RemapInputs
    /\ output = <<>>

RemapMove ==
    /\ input \in RemapInputs
    /\ output = <<>>
    /\ output' = <<convertMoveEntry(input)>>
    /\ UNCHANGED <<streamVars, input>>

NextRemap == RemapMove

SpecRemap == InitRemap /\ [][NextRemap]_vars

\* the per-slot rule: points 0..23 become 1..24, the bar 24 becomes 25, bear-off
\* -2 and unused -1 stay
SlotRule(x) ==
    IF x \in 0..23 THEN x + 1 ELSE IF x = 24 THEN 25 ELSE x

\* C15: the played move and every analysis alternative are remapped slot by slot
\* by the same rule, so one stored move gives the same output as the played move
\* and as an alternative.
C15_SameRuleForPlayedAndAlternatives ==
    Len(output) = 1 =>
        /\ \A j \in 1..8 : output[1].PlayedMove[j] = SlotRule(input.Moves[j])
        /\ \A i \in DOMAIN output[1].Analysis :
               \A j \in 1..8 :
                   output[1].Analysis[i].Move[j] = SlotRule(input.AltMoves[i][j])
        /\ \A i \in DOMAIN output[1].Analysis :
               input.AltMoves[i] = input.Moves =>
                   \A j \in 1..8 : output[1].Analysis[i].Move[j] = output[1].PlayedMove[j]

-----------------------------------------------------------------------------
\* Cube analysis of a cube record, over the stored equities

InitCube ==
    /\ NoStream
    /\ input \in CubeEquityInputs
    /\ output = <<>>

NextCube == ConvertCube

SpecCube == InitCube /\ [][NextCube]_vars

\* C20: the wrong pass/take percentage of a cube move is computed only when the
\* no-double equity is the best (highest) of the three cubeful equities, as the
\* no-double equity's place between the two doubled equities in percent;
\* otherwise the field holds -1.
C20_WrongPassTakeOnlyWhenNoDoubleBest ==
    Len(output) = 1 =>
        LET nd == input.AEquB
            lo == Min(input.AEquDouble, input.AEquDrop)
            hi == Max(input.AEquDouble, input.AEquDrop)
            pc100 == output[1].Analysis.WrongPassTakePercent
        IN  IF nd = Max(nd, hi)
            THEN /\ pc100 # -1000
                 /\ pc100 = (IF hi = lo THEN 0 ELSE ((nd - lo) * 100000) \div (hi - lo))
            ELSE pc100 = -1000

\* a cube record whose no-double equity ties with double/take for the best has
\* been converted: the percentage is computed (100%)
C20_Witness ==
    /\ Len(output) = 1
    /\ input \in CubeEquityInputs
    /\ input.AEquB = 400 /\ input.AEquDouble = 400 /\ input.AEquDrop = -125
    /\ output[1].Analysis.WrongPassTakePercent = 100000

-----------------------------------------------------------------------------
\* Match header decoding on its own: a header slot of some stored version, of
\* which `avail` bytes are left in the stream

MatchHdrVersions == {-1, 0, 7, 8, 9, 23, 24, 25, 26, 29, 30, 31}

MatchHdrAvails == {9, 555, 556, 612, 620, 1000, 1912, 1944, 1960, 2217, 2218, RecordSize}

MatchHdrInputs ==
    [slot : {MatchHeaderSlot(v) : v \in MatchHdrVersions}, avail : MatchHdrAvails]

InitMatchHdr ==
    /\ NoStream
    /\ input \in MatchHdrInputs
    /\ output = <<>>

DecodeMatchHeader ==
    /\ input \in MatchHdrInputs
    /\ output = <<>>
    /\ output' = <<HeaderMatchEntry_FromStream(input.slot, input.avail, InitialVersion).rec>>
    /\ UNCHANGED <<streamVars, input>>

NextMatchHdr == DecodeMatchHeader

SpecMatchHdr == InitMatchHdr /\ [][NextMatchHdr]_vars

\* what the decoded header holds of each version-gated group, against the zero
\* values of a fresh record
CubeLimitRead(h) == h.CubeLimit # 0
UnicodeStringsRead(h) ==
    /\ h.Transcribed
    /\ h.Event # <<>> /\ h.Player1 # <<>> /\ h.Player2 # <<>>
    /\ h.Location # <<>> /\ h.Round # <<>>
UnicodeStringsDefault(h) ==
    /\ ~h.Transcribed
    /\ h.Event = <<>> /\ h.Player1 = <<>> /\ h.Player2 = <<>>
    /\ h.Location = <<>> /\ h.Round = <<>>
TimeSettingRead(h) == h.TimeSetting /\ h.ClockType # 0
TimeSettingDefault(h) == ~h.TimeSetting /\ h.ClockType = 0
DelaysRead(h) == h.TotTimeDelayMove # 0
TranscriberRead(h) == h.Transcriber # <<>>

\* C13: the match header decoder reads each version-gated group exactly when the
\* version stored in the header is at least the group's threshold (8 cube limit,
\* 24 Unicode strings, 25 time setting, 26 delays, 30 transcriber) and leaves it
\* at its zero value otherwise: a complete version 23 header keeps the Unicode
\* strings and every later group at their defaults, a complete version 30
\* header has its transcriber read.
C13_GroupReadIffVersionAtLeastThreshold ==
    (Len(output) = 1 /\ input.avail >= 2218) =>
        LET h == output[1]
            v == input.slot.Version
        IN  /\ h.Version = v
            /\ CubeLimitRead(h) <=> v >= 8
            /\ v < 8 => h.CubeLimit = 0
            /\ IF v >= 24 THEN UnicodeStringsRead(h) /\ h.Player1 = input.slot.Player1
                          ELSE UnicodeStringsDefault(h)
            /\ IF v >= 25 THEN TimeSettingRead(h) ELSE TimeSettingDefault(h)
            /\ DelaysRead(h) <=> v >= 26
            /\ IF v >= 30 THEN h.Transcriber = input.slot.Transcriber
                          ELSE h.Transcriber = <<>>
            /\ v = 23 => /\ UnicodeStringsDefault(h) /\ TimeSettingDefault(h)
                         /\ ~DelaysRead(h) /\ ~TranscriberRead(h)
            /\ v = 30 => TranscriberRead(h)

\* a complete header whose stored version is exactly the Unicode threshold has
\* been decoded: its strings are read, its transcriber is not
C13_Witness ==
    /\ Len(output) = 1
    /\ input \in MatchHdrInputs
    /\ input.avail = RecordSize
    /\ input.slot.Version = 24
    /\ UnicodeStringsRead(output[1])
    /\ ~TranscriberRead(output[1])

-----------------------------------------------------------------------------
\* Segment extraction: Import.GetFileSegments (behind ParseXGFromFile) and the
\* copy of it inside ParseXGFromReader, on the same file

SegmentGDFImage == 1
SegmentXGUnknown == 7

\* offset of the tag inside the game file
XGGameHdrLen == 556

\* "DMLI"
GameFileMagic == <<68, 77, 76, 73>>

\* data[XGGameHdrLen : XGGameHdrLen+4] of a game file: bytes 556..559 of its first slot
MagicBytes(d) == d.slots[1].Magic

\* the check GetFileSegments makes on an extracted game file: only data longer
\* than XGGameHdrLen+4 bytes is looked at
ValidGameFile(d) == DataLen(d) > XGGameHdrLen + 4 => MagicBytes(d) = GameFileMagic

\* the loop over archiveObj.ArcRegistry from entry i on; verify: the loop of
\* GetFileSegments, which checks game files, or the one of ParseXGFromReader,
\* which does not
RECURSIVE ArchiveSegments(_, _, _, _)
ArchiveSegments(b, i, segs, verify) ==
    IF i > Len(b.files) THEN [err |-> "nil", segments |-> segs]
    ELSE LET fileRec     == b.files[i]
             segmentType == Lookup(InitialXGFileMap, fileRec.Name)
         IN  IF fileRec.corrupt
             THEN [err |-> "file CRC check failed", segments |-> <<>>]
             ELSE IF verify /\ segmentType = SegmentXGGameFile /\ ~ValidGameFile(fileRec.Data)
             THEN [err |-> "not a valid XG gamefile", segments |-> <<>>]
             ELSE ArchiveSegments(b, i + 1,
                                  Append(segs, [Type |-> segmentType, Data |-> fileRec.Data,
                                                Filename |-> fileRec.Name]),
                                  verify)

\* the segments before the archive loop: the container header and, when the
\* header names one, the thumbnail
LeadingSegments(b) ==
    <<[Type |-> SegmentGDFHdr, Data |-> b.gdf, Filename |-> ""]>> \o
    (IF Len(b.thumb) > 0
     THEN <<[Type |-> SegmentGDFImage, Data |-> b.thumb, Filename |-> ""]>>
     ELSE <<>>)

\* Import.GetFileSegments on the file b
GetFileSegments(b) ==
    IF GameDataFormatHdrRecord_FromStream(b.gdf).err # "nil"
    THEN [err |-> "not a game data format file", segments |-> <<>>]
    ELSE ArchiveSegments(b, 1, LeadingSegments(b), TRUE)

\* the segments ParseXGFromReader builds from the bytes of b
ReaderSegments(b) ==
    IF GameDataFormatHdrRecord_FromStream(b.gdf).err # "nil"
    THEN [err |-> GameDataFormatHdrRecord_FromStream(b.gdf).err, segments |-> <<>>]
    ELSE ArchiveSegments(b, 1, LeadingSegments(b), FALSE)

\* return nil, err
NoMatch(err) == [err |-> err, Games |-> <<>>, Metadata |-> ZeroMetadata]

ParseXGFromFile(b) ==
    LET got == GetFileSegments(b)
    IN  IF got.err # "nil" THEN NoMatch(got.err) ELSE ParseXG(got.segments)

ParseXGFromReader(b) ==
    LET got == ReaderSegments(b)
    IN  IF got.err # "nil" THEN NoMatch(got.err) ELSE ParseXG(got.segments)

\* a match header whose bytes 556..559 are not the tag
BadTagHeader == [MatchHeaderSlot(30) EXCEPT !.Magic = <<68, 77, 76, 74>>]

\* game files: the one-game file; one with a wrong tag; one that starts with a
\* game header (zeros where the tag should be); wrong tags in files of exactly
\* 560 and 561 bytes; an empty one
ImportGameFiles ==
    {SampleStream(30, 1, 2, 1, 400, 1000),
     Whole(<<BadTagHeader, GameHeaderSlot(1), SampleMoveSlot(1, 1), GameFooterSlot(1)>>),
     Whole(<<GameHeaderSlot(1), SampleMoveSlot(-1, 1), GameFooterSlot(1)>>),
     [slots |-> <<BadTagHeader>>, lastLen |-> 560],
     [slots |-> <<BadTagHeader>>, lastLen |-> 561],
     Whole(<<>>)}

\* archived files next to the game file: a known side file, one of an unknown
\* name, one whose CRC check fails
ImportSideFiles ==
    {[Name |-> "temp.xgi", Data |-> Whole(<<>>), corrupt |-> FALSE],
     [Name |-> "other.bin", Data |-> Whole(<<GameHeaderSlot(3), GameFooterSlot(1)>>), corrupt |-> FALSE],
     [Name |-> "temp.xgc", Data |-> Whole(<<>>), corrupt |-> TRUE]}

ImportFiles ==
    {[gdf |-> h, thumb |-> t,
      files |-> <<side, [Name |-> "temp.xg", Data |-> g, corrupt |-> FALSE]>>] :
        h \in {ParHeader, [ParHeader EXCEPT !.Magic = <<72, 77, 71, 82>>]},
        t \in {<<>>, <<255, 216>>}, side \in ImportSideFiles, g \in ImportGameFiles}

InitImport ==
    /\ NoStream
    /\ input \in ImportFiles
    /\ output = <<>>

\* one of the three entry points is called on the file, once each
CallOn(fn, res) ==
    /\ input \in ImportFiles
    /\ \A i \in 1..Len(output) : output[i].fn # fn
    /\ output' = Append(output, [fn |-> fn, res |-> res])
    /\ UNCHANGED <<streamVars, input>>

CallGetFileSegments == CallOn("GetFileSegments", GetFileSegments(input))

CallParseXGFromFile == CallOn("ParseXGFromFile", ParseXGFromFile(input))

CallParseXGFromReader == CallOn("ParseXGFromReader", ParseXGFromReader(input))

NextImport == CallGetFileSegments \/ CallParseXGFromFile \/ CallParseXGFromReader

SpecImport == InitImport /\ [][NextImport]_vars

\* the segments a call returned: those of GetFileSegments, or those
\* ParseXGFromReader built for the same file
SegmentsReturned(call) ==
    IF call.fn = "GetFileSegments" THEN call.res
    ELSE IF call.fn = "ParseXGFromReader" THEN ReaderSegments(input)
    ELSE [err |-> "none", segments |-> <<>>]

\* C21: every game-records segment (entry temp.xg) that segment extraction
\* returns holds the tag "DMLI" at bytes 556..559, and extraction fails for a
\* game-records entry that does not.
C21_GameFileTagValidated ==
    \A i \in 1..Len(output) :
        LET got == SegmentsReturned(output[i])
        IN  got.err = "nil" =>
                \A j \in 1..Len(got.segments) :
                    got.segments[j].Filename = "temp.xg" =>
                        /\ DataLen(got.segments[j].Data) >= XGGameHdrLen + 4
                        /\ MagicBytes(got.segments[j].Data) = GameFileMagic


\* C22: an archive entry whose name is none of temp.xgi, temp.xgr, temp.xgc and
\* temp.xg yields a Segment of the unknown kind, not of any known kind.
C22_UnknownNameUnknownKind ==
    \A i \in 1..Len(output) :
        LET got == SegmentsReturned(output[i])
        IN  got.err = "nil" =>
                \A j \in 1..Len(got.segments) :
                    (got.segments[j].Filename \notin DOMAIN InitialXGFileMap \cup {""}) =>
                        got.segments[j].Type = SegmentXGUnknown


-----------------------------------------------------------------------------
\* Games left open (runs under Spec)

\* the game header at records[i] is followed by neither a game footer nor
\* another game header before position j
OpenUpTo(i, j) == \A k \in (i + 1)..(j - 1) : records[k].kind \notin {1, 4}

\* the game opened at records[i] is never closed by a footer: another game
\* header comes first, or the records end
NeverClosed(i) ==
    /\ records[i].kind = 1
    /\ \A j \in (i + 1)..Len(records) : records[j].kind = 4 => ~OpenUpTo(i, j)

\* C23: a game opened by a game header and not closed by a game footer still
\* appears in Match.Games, with Winner = 0 and the moves collected for it.
C23_UnclosedGameKept ==
    result = "match" =>
        \A i \in 1..Len(records) :
            NeverClosed(i) =>
                \E n \in 1..Len(games) :
                    /\ games[n].hdr = records[i].at
                    /\ games[n].Winner = 0
                    /\ \A k \in (i + 1)..Len(records) :
                          (OpenUpTo(i, k + 1) /\ records[k].kind = 3) =>
                              \E mv \in 1..Len(games[n].Moves) : games[n].Moves[mv].src = records[k].at


-----------------------------------------------------------------------------
\* The footer records at byte level: where the decoders start reading

\* var skip [9]byte, then var padding1 [4]byte
FooterGameSkip == 9 + 4
FooterMatchSkip == 9 + 4

\* the fields FooterGameEntry.FromStream reads first, from the record bytes bs
FooterGameFields(bs) ==
    [Score1g   |-> Int32At(bs, FooterGameSkip),
     Score2g   |-> Int32At(bs, FooterGameSkip + 4),
     Winner    |-> Int32At(bs, FooterGameSkip + 12),
     PointsWon |-> Int32At(bs, FooterGameSkip + 16)]

\* the fields FooterMatchEntry.FromStream reads first
FooterMatchFields(bs) ==
    [Score1m |-> Int32At(bs, FooterMatchSkip),
     Score2m |-> Int32At(bs, FooterMatchSkip + 4),
     WinnerM |-> Int32At(bs, FooterMatchSkip + 8)]

\* a footer record as the file holds it: the 8-byte record header, the record
\* kind, 3 bytes of padding, then 32-bit fields from byte 12 on
FooterBytes(kind, fields) ==
    <<0, 0, 0, 0, 0, 0, 0, 0, kind, 0, 0, 0>>
    \o LE32(fields[1]) \o LE32(fields[2]) \o LE32(fields[3]) \o LE32(fields[4])
    \o LE32(fields[5]) \o <<0, 0, 0, 0>>

FooterValues == {0, 1, 2, 7, 300}

FooterInputs ==
    {[kind |-> k, fields |-> <<a, b, c, 2, 1>>, bytes |-> FooterBytes(k, <<a, b, c, 2, 1>>)] :
        k \in {4, 5}, a \in FooterValues, b \in FooterValues, c \in {0, 1}}

InitFooter ==
    /\ NoStream
    /\ input \in FooterInputs
    /\ output = <<>>

DecodeGameFooter ==
    /\ input \in FooterInputs
    /\ input.kind = 4
    /\ output = <<>>
    /\ output' = <<FooterGameFields(input.bytes)>>
    /\ UNCHANGED <<streamVars, input>>

DecodeMatchFooter ==
    /\ input \in FooterInputs
    /\ input.kind = 5
    /\ output = <<>>
    /\ output' = <<FooterMatchFields(input.bytes)>>
    /\ UNCHANGED <<streamVars, input>>

NextFooter == DecodeGameFooter \/ DecodeMatchFooter

SpecFooter == InitFooter /\ [][NextFooter]_vars

\* C24: the game footer decoder and the match footer decoder each skip exactly
\* 12 bytes (9 + 3) of the record before the first score field: the first score
\* is the 32-bit value at bytes 12..15, the second the one at bytes 16..19.
C24_FootersSkipTwelveBytes ==
    Len(output) = 1 =>
        IF input.kind = 4
        THEN /\ output[1].Score1g = Int32At(input.bytes, 12)
             /\ output[1].Score2g = Int32At(input.bytes, 16)
        ELSE /\ output[1].Score1m = Int32At(input.bytes, 12)
             /\ output[1].Score2m = Int32At(input.bytes, 16)


\* C25: for the same file, ParseXGFromFile and ParseXGFromReader agree: either
\* both fail, or both succeed and return equal Match values.
C25_FileAndReaderAgree ==
    \A i, j \in 1..Len(output) :
        (output[i].fn = "ParseXGFromFile" /\ output[j].fn = "ParseXGFromReader") =>
            /\ (output[i].res.err = "nil") <=> (output[j].res.err = "nil")
            /\ output[i].res.err = "nil" => output[i].res = output[j].res


-----------------------------------------------------------------------------
\* Position IDs (strings are sequences of character codes)

\* the checker count one character stands for: '-' is 0, 'A'..'Z' are 1..26,
\* 'a'..'o' are -1..-15, any other character leaves count at its zero value
XGIDCount(char) ==
    IF char = 45 THEN 0
    ELSE IF char >= 65 /\ char <= 90 THEN char - 65 + 1
    ELSE IF char >= 97 /\ char <= 111 THEN -(char - 97 + 1)
    ELSE 0

\* the slot character i (0-based) of the ID is stored in
XGIDSlot(i) == IF i < 24 THEN 24 - i ELSE IF i = 24 THEN 0 ELSE 25

XGIDToPosition(positionID) ==
    IF Len(positionID) # 26 THEN ZeroPos
    ELSE [k \in 0..25 |->
            LET i == CHOOSE i \in 0..25 : XGIDSlot(i) = k
            IN  XGIDCount(positionID[i + 1])]

\* "-b----E-C---eE---c-e----B-", the starting position
StartingID ==
    <<45, 98, 45, 45, 45, 45, 69, 45, 67, 45, 45, 45, 101, 69,
      45, 45, 45, 99, 45, 101, 45, 45, 45, 45, 66, 45>>

\* '-', 'A', 'O', 'P', 'Z', 'a', 'o', 'p', '0'
XGIDChars == {45, 65, 79, 80, 90, 97, 111, 112, 48}

\* the starting position with one character replaced, and IDs of 25 and 27
\* characters
XGIDInputs ==
    {[StartingID EXCEPT ![i] = c] : i \in 1..26, c \in XGIDChars}
    \cup {SubSeq(StartingID, 1, 25), StartingID \o <<45>>}

InitXGID ==
    /\ NoStream
    /\ input \in XGIDInputs
    /\ output = <<>>

DecodePositionID ==
    /\ input \in XGIDInputs
    /\ output = <<>>
    /\ output' = <<XGIDToPosition(input)>>
    /\ UNCHANGED <<streamVars, input>>

NextXGID == DecodePositionID

SpecXGID == InitXGID /\ [][NextXGID]_vars

\* C26: for every 26-character position ID, each of the 26 slots of the array
\* XGIDToPosition returns lies in -15..15.
C26_SlotsWithinFifteen ==
    (Len(output) = 1 /\ Len(input) = 26) =>
        \A k \in 0..25 : output[1][k] >= -15 /\ output[1][k] <= 15


-----------------------------------------------------------------------------
\* One record decoded from a slot: bytes consumed and the seek that follows

\* version values on both sides of every gate, and the extremes of int32
SlotVersions == {-2147483647 - 1, -1, 0, 7, 8, 23, 24, 25, 26, 27, 28, 29, 30, 31, 2147483647}

SlotKinds ==
    {MatchHeaderSlot(30), GameHeaderSlot(1), CubeSlot(1, 1), MoveSlot(1),
     GameFooterSlot(1), MatchFooterSlot, UnknownSlot}

\* a record alone in a stream cut at several lengths, or followed by another
\* record; the record decoded is the one at offset p
SlotInputs ==
    {[d |-> [slots |-> <<[s EXCEPT !.Version = IF own THEN v ELSE 30]>>, lastLen |-> l],
      p |-> 0, v |-> v] :
        s \in SlotKinds, own \in BOOLEAN, v \in SlotVersions,
        l \in {RecordSize, 2544, 2218, 100, 9}}
    \cup
    {[d |-> Whole(<<GameHeaderSlot(1), [s EXCEPT !.Version = v], MatchFooterSlot>>),
      p |-> RecordSize, v |-> v] : s \in SlotKinds, v \in SlotVersions}

InitSlot ==
    /\ NoStream
    /\ input \in SlotInputs
    /\ output = <<>>

\* GameFileRecord.FromStream on the record at input.p; n is what the type
\* decoder consumed (realRecSize)
DecodeSlot ==
    /\ input \in SlotInputs
    /\ output = <<>>
    /\ output' = <<[n |-> Dispatch(SlotAt(input.d, input.p),
                                   ReaderLen(input.d, input.p), input.v).n,
                    r |-> GameFileRecord_FromStream(input.d, input.p, input.v)]>>
    /\ UNCHANGED <<streamVars, input>>

NextSlot == DecodeSlot

SpecSlot == InitSlot /\ [][NextSlot]_vars

\* C27: for every record kind and every format version the type decoder
\* consumes at most 2560 bytes from the record start, so the seek that ends
\* GameFileRecord.FromStream is by a non-negative amount: the new offset is
\* never before the end of what was just decoded.
C27_DecoderWithinSlot ==
    (Len(output) = 1 /\ output[1].r.err = "nil") =>
        /\ output[1].n <= RecordSize
        /\ RecordSize - output[1].n >= 0
        /\ output[1].r.pos >= input.p + output[1].n
        /\ output[1].r.pos = input.p + RecordSize

\* a version-31 checker record, the longest decode, with a record after it
C27_Witness ==
    /\ Len(output) = 1
    /\ output[1].r.err = "nil"
    /\ input.p = RecordSize
    /\ SlotAt(input.d, input.p).kind = 3
    /\ input.v >= 27
    /\ output[1].n = 2544
    /\ output[1].r.pos = 2 * RecordSize


-----------------------------------------------------------------------------
\* The loop of ParseGameFile, with its iterations counted

\* largest number of slots of a stream whose iterations are counted
MaxLoopSlots == 3

\* no run is followed beyond this many iterations
MaxIterations == 8

LoopSlotChoices == {MatchHeaderSlot(30), MoveSlot(1), UnknownSlot}

RECURSIVE LoopSlotSeqs(_)
LoopSlotSeqs(n) ==
    IF n = 0 THEN {<<>>}
    ELSE LET shorter == LoopSlotSeqs(n - 1)
         IN  shorter \cup {Append(q, s) : q \in {x \in shorter : Len(x) = n - 1},
                                          s \in LoopSlotChoices}

\* the last slot whole, cut inside the 9-byte peek, cut right after it, cut
\* inside the payload, or one byte short
LoopLastLens == {RecordSize, 5, 9, 100, 2559}

\* output holds the read offset at the start of each iteration made so far
InitLoop ==
    /\ \E q \in LoopSlotSeqs(MaxLoopSlots), l \in LoopLastLens :
          StartOn([slots |-> q, lastLen |-> l])
    /\ input = Nil
    /\ output = <<>>

LoopIteration ==
    /\ Len(output) < MaxIterations
    /\ ParseGameFileIteration
    /\ output' = Append(output, pos)
    /\ UNCHANGED input

NextLoop == LoopIteration

\* the loop is a plain for loop of one goroutine: an iteration that can run does
SpecLoop == InitLoop /\ [][NextLoop]_vars /\ WF_vars(LoopIteration)

\* number of 2560-byte slots a stream of n bytes touches
SlotsTouched(n) == (n + RecordSize - 1) \div RecordSize

-----------------------------------------------------------------------------
\* Records that arrive while no game is open (runs under Spec)

\* currentGame is nil when records[k] arrives: every game header before it has
\* been followed by a game footer
NoGameOpenAt(k) ==
    \A i \in 1..(k - 1) :
        records[i].kind = 1 => \E j \in (i + 1)..(k - 1) : records[j].kind = 4

\* the records ParseXG has gone through
Handled == IF pc = "read" THEN {} ELSE 1..Min(idx - 1, Len(records))

\* C29: a cube or checker record that arrives while no game is open appears in
\* no Game of the Match, and a game footer that arrives while no game is open
\* appends nothing to Match.Games: the games are exactly those closed by a
\* footer that found a game open.
C29_RecordsOutsideGamesDropped ==
    /\ \A k \in 1..Len(records) :
          (NoGameOpenAt(k) /\ records[k].kind \in {2, 3}) =>
              /\ \A n \in 1..Len(games) : \A mv \in 1..Len(games[n].Moves) :
                    games[n].Moves[mv].src # records[k].at
              /\ currentGame.open =>
                    \A mv \in 1..Len(currentGame.Moves) :
                        currentGame.Moves[mv].src # records[k].at
    /\ \A k \in 1..Len(records) :
          (NoGameOpenAt(k) /\ records[k].kind = 4) =>
              \A n \in 1..Len(games) : games[n].ftr # records[k].at
    /\ Len(games) = Cardinality({k \in Handled : records[k].kind = 4 /\ ~NoGameOpenAt(k)})

\* a Match was returned with one game, from records that also hold a checker
\* record and a game footer that arrived with no game open
C29_Witness ==
    /\ result = "match"
    /\ Len(games) = 1
    /\ \E k \in 1..Len(records) : NoGameOpenAt(k) /\ records[k].kind = 3
    /\ \E k \in 1..Len(records) : NoGameOpenAt(k) /\ records[k].kind = 4


-----------------------------------------------------------------------------
\* The wrong pass/take percentage over all float32 equities

InitPercent ==
    /\ NoStream
    /\ input \in FloatEquityInputs
    /\ output = <<>>

NextPercent == ConvertCube

SpecPercent == InitPercent /\ [][NextPercent]_vars

\* C30: whenever convertCubeEntry computes the wrong pass/take percentage
\* (no-double equity >= both doubled equities), the result is 0 if the
\* double/take and double/pass equities are equal and otherwise at least 100;
\* it is never strictly between 0 and 100.
C30_PercentZeroOrAtLeastHundred ==
    (Len(output) = 1
        /\ NoDoubleIsBest(input.AEquB, input.AEquDouble, input.AEquDrop)) =>
        LET pct == output[1].Analysis.WrongPassTakePercent
        IN  /\ IF input.AEquDouble = input.AEquDrop
               THEN pct = 0
               ELSE FGe(pct, 100000)
            /\ ~(FLess(0, pct) /\ FLess(pct, 100000))
====
